---------------------------- MODULE Spec2Model ----------------------------
(***************************************************************************)
(* The retry-driven execution engine of the NLQ-to-SQL server              *)
(* (query_executor.execute_with_retry) together with the collaborators it  *)
(* calls on every iteration: the generation call (llm_client.generate_sql, *)
(* which ends in llm_client.call_llm), query_executor.execute_query and    *)
(* query_logger.log_attempt.                                               *)
(*                                                                         *)
(* A query_data request and a query_logs request run interleaved, each     *)
(* with its own tool configuration; each step of a request (the generation *)
(* call, the execution call, the log call, the evaluation of the execution *)
(* result) is one action.  The LLM and the query engine are black boxes:   *)
(* what they return is drawn from small sets.  Each of the three calls can *)
(* also raise; execute_with_retry holds no try/except, so an exception     *)
(* ends the request.  Wall-clock values (the record's timestamp,           *)
(* execution_time_ms) are not modelled.                                    *)
(*                                                                         *)
(* Six specifications share the variables:                                 *)
(*   Spec        server startup (build_semantic_context per tool) and the  *)
(*               retry loop, execute_query taken as one step;              *)
(*   SpecLive    Spec with weak fairness on the steps of each request;     *)
(*   SpecLog     query_logger.log_attempt, statement by statement;         *)
(*   SpecConn    two tool calls inside execute_query / get_connection,     *)
(*               statement by statement, on the shared _connections;       *)
(*   SpecSource  semantic_layer._get_data_source on its own;               *)
(*   SpecText    query_executor.sanitize_sql, the prompt part and the      *)
(*               text-to-sql part of llm_client.generate_sql on their      *)
(*               own, strings being sequences of characters.               *)
(***************************************************************************)
EXTENDS Integers, Sequences, FiniteSets, TLC

\* ------------------------------------------------------------- bounds

\* Largest retry budget of the data_query tool (its max_retries ranges over
\* 0..MaxRetries).
MaxRetries == 2

\* Largest retry budget of the log_query tool.
MaxLogRetries == 1

\* Largest number of log_attempt calls one thread makes.
MaxLogCalls == 2

\* The two tools of the server, each with its own tool configuration.
Tools == {"data_query", "log_query"}

\* The requests that run interleaved: a query_data call and a query_logs
\* call.  Requests share the query_log table and the connection cache, and
\* nothing else.
Requests == {"r1", "r2"}

\* server.query_data and server.query_logs pass their own configuration.
ToolOf(r) == IF r = "r1" THEN "data_query" ELSE "log_query"

\* ------------------------------------------------------------- values

\* Python's None.
None == "None"

\* The question and client name a request is called with.
question(r) == IF r = "r1" THEN "total sales by region" ELSE "how many rows"

client_name(r) == IF r = "r1" THEN "unknown" ELSE "claude"

\* What generate_sql_fn can return: {"sql", "input_tokens", "output_tokens"}.
\* The second statement is one that generate_sql made by putting the
\* response prefix SELECT before a response that began with WITH.
GenerationResults ==
    { [sql |-> "SELECT a FROM t", input_tokens |-> 5, output_tokens |-> 1],
      [sql |-> "SELECT WITH c AS (SELECT 1) SELECT b FROM c",
       input_tokens |-> 7, output_tokens |-> 2] }

\* str(e) of the engine's exception for a statement.
EngineError(sql) ==
    IF sql = "SELECT a FROM t" THEN "Binder Error: column a" ELSE "Binder Error: column b"

\* What execute_query returns on success and on an engine exception.
ExecSuccess ==
    [success |-> TRUE, columns |-> <<"n">>, rows |-> << <<1>> >>,
     row_count |-> 1, error |-> None]

ExecFailure(e) ==
    [success |-> FALSE, columns |-> None, rows |-> None,
     row_count |-> 0, error |-> e]

\* The engine is a black box: a statement runs or fails.
ExecutionResults(sql) == {ExecSuccess, ExecFailure(EngineError(sql))}

\* ------------------------------------------------------------- state

VARIABLES
    tool_config,   \* per tool: the "database" section of its configuration
    semantic_context, \* per tool: server's *_semantic_context text
    introspections,   \* per tool: how often build_semantic_context ran
    pc,            \* per request: where execute_with_retry stands
    frame,         \* per request: the locals of execute_with_retry
    outcome,       \* per request: the returned Loop Outcome, or None
    exception,     \* per request: the exception that left the call, or None
    query_log,     \* the query_log table: the Attempt Records in insert order
    connections,   \* _connections: cache key -> connection handle
    calls,         \* per request: the calls made so far, in order
    eq_pc,         \* per thread: where its execute_query call stands
    eq_frame,      \* per thread: the locals of execute_query / get_connection
    engine,        \* per connection handle ever made: the statement whose
                   \* result set the handle holds
    pure,          \* the call of a function without side effects that is
                   \* examined on its own: its name, arguments and result
    la_pc,         \* per thread: where its log_attempt call stands
    la_frame,      \* per thread: the locals of log_attempt
    log_handles,   \* per handle duckdb.connect made on the log store:
                   \* "open" or "closed"
    log_table      \* whether the log store holds the query_log table

\* The state of log_attempt calls and of the log store's handles.
log_vars == <<la_pc, la_frame, log_handles, log_table>>

\* What execute_with_retry and its collaborators never assign.
rest == <<semantic_context, introspections, eq_pc, eq_frame, engine, pure, log_vars>>

vars == <<tool_config, pc, frame, outcome, exception, query_log, connections, calls,
          rest>>

\* ------------------------------------------------------------- helpers

\* uuid.uuid4(): the n-th value request r draws; no two draws collide.
uuid4(r, n) == <<r, n>>

\* The module globals data_semantic_context and log_semantic_context before
\* server.py has assigned them.
NoContext == [table |-> None, sample_rows |-> 0]

\* Parameters and locals of execute_with_retry before the loop (lines 131-138).
InitialFrame(id) ==
    [request_id |-> id,
     errors |-> <<>>,
     total_input_tokens |-> 0,
     total_output_tokens |-> 0,
     previous_sql |-> None,
     previous_error |-> None,
     attempt |-> 0,
     sql |-> None,
     attempt_input_tokens |-> 0,
     attempt_output_tokens |-> 0,
     query_result |-> None,
     semantic_context |-> NoContext]

IdleFrame == InitialFrame(None)


\* dict.get(key, default) on a configuration section: None stands for an
\* absent key.
ConfigGet(value, default) == IF value = None THEN default ELSE value

\* What SHOW TABLES returns on the database file of a tool: the log store
\* holds the query_log table.
show_tables(tool) == IF tool = "log_query" THEN <<"query_log">> ELSE <<>>

\* A call of _get_data_source that returns and one that raises ValueError.
\* `discovered` tells whether SHOW TABLES ran.
SourceFound(query_target, table_name, discovered) ==
    [raised |-> FALSE, error |-> <<>>, query_target |-> query_target,
     table_name |-> table_name, discovered |-> discovered]

SourceError(message, discovered) ==
    [raised |-> TRUE, error |-> message, query_target |-> None,
     table_name |-> None, discovered |-> discovered]

\* get_data_source that takes the first table when SHOW TABLES returns
\* several.
get_data_source_first(db_config, tables) ==
    LET table_name == ConfigGet(db_config.table_name, "")
        db_path == ConfigGet(db_config.db_path, "")
        parquet_path == ConfigGet(db_config.parquet_path, "")
    IN  IF db_path # ""
        THEN IF table_name = ""
             THEN IF Len(tables) >= 1
                  THEN SourceFound(tables[1], tables[1], TRUE)
                  ELSE SourceError(<<"No tables found in database: ", db_path>>, TRUE)
             ELSE SourceFound(table_name, table_name, FALSE)
        ELSE IF parquet_path # ""
        THEN SourceFound(<<"'", parquet_path, "'">>,
                         IF table_name = "" THEN "data" ELSE table_name, FALSE)
        ELSE SourceError(<<"Config must specify either 'db_path' or 'parquet_path' in database section">>,
                         FALSE)

\* semantic_layer._get_data_source on a "database" section; `tables` is what
\* SHOW TABLES returns on the database file.
get_data_source(db_config, tables) ==
    LET table_name == ConfigGet(db_config.table_name, "")
        db_path == ConfigGet(db_config.db_path, "")
        parquet_path == ConfigGet(db_config.parquet_path, "")
    IN  IF db_path # ""
        THEN IF table_name = ""
             THEN IF Len(tables) = 1
                  THEN SourceFound(tables[1], tables[1], TRUE)
                  ELSE IF Len(tables) = 0
                  THEN SourceError(<<"No tables found in database: ", db_path>>, TRUE)
                  ELSE SourceError(<<"Multiple tables found, specify table_name in config: ",
                                     tables>>, TRUE)
             ELSE SourceFound(table_name, table_name, FALSE)
        ELSE IF parquet_path # ""
        THEN SourceFound(<<"'", parquet_path, "'">>,
                         IF table_name = "" THEN "data" ELSE table_name, FALSE)
        ELSE SourceError(<<"Config must specify either 'db_path' or 'parquet_path' in database section">>,
                         FALSE)

\* format_context_for_prompt(build_semantic_context(config), config): the
\* text names the table and carries what the introspection saw.
format_context_for_prompt(table_name, sample_rows) ==
    [table |-> table_name, sample_rows |-> sample_rows]

\* What the introspection queries of build_semantic_context see in a tool's
\* source: the log store holds the rows logged so far, the data file does
\* not change.
introspect(tool, log) == IF tool = "log_query" THEN Len(log) ELSE 0

\* The connection-cache key get_connection computes from a "database"
\* section: ("db", db_path, table_name) or ("parquet", parquet_path,
\* table_name), table_name defaulting to "data".  (A section with neither
\* path raises at line 56; the configurations of the tools name one.)
cache_key_of(db_config) ==
    LET table_name == ConfigGet(db_config.table_name, "data")
        db_path == ConfigGet(db_config.db_path, "")
        parquet_path == ConfigGet(db_config.parquet_path, "")
    IN  IF db_path # "" THEN <<"db", db_path, table_name>>
        ELSE <<"parquet", parquet_path, table_name>>

cache_key(tool) == cache_key_of(tool_config[tool])

\* duckdb.connect: a new connection handle; `by` is the call that made it.
connect(key, by) == [key |-> key, by |-> by]

\* Line 132: max_retries = tool_config["database"]["max_retries"].
max_retries(r) == tool_config[ToolOf(r)].max_retries

\* AccumulateTokens with `=` in place of `+=`: the totals are the last
\* attempt's counts.
AccumulateTokensOverwrite(f, llm_result) ==
    [f EXCEPT !.sql = llm_result.sql,
              !.attempt_input_tokens = llm_result.input_tokens,
              !.attempt_output_tokens = llm_result.output_tokens,
              !.total_input_tokens = llm_result.input_tokens,
              !.total_output_tokens = llm_result.output_tokens]

\* Lines 149-154: take the generation result, add its token counts.
AccumulateTokens(f, llm_result) ==
    [f EXCEPT !.sql = llm_result.sql,
              !.attempt_input_tokens = llm_result.input_tokens,
              !.attempt_output_tokens = llm_result.output_tokens,
              !.total_input_tokens = @ + llm_result.input_tokens,
              !.total_output_tokens = @ + llm_result.output_tokens]

\* AttemptRecord with attempt_number=attempt: the loop index, not 1-based.
AttemptRecordZeroBased(r, f) ==
    [request_id |-> f.request_id,
     attempt_number |-> f.attempt,
     client |-> client_name(r),
     nlq |-> question(r),
     sql |-> f.sql,
     success |-> f.query_result.success,
     error_message |-> f.query_result.error,
     row_count |-> IF f.query_result.success THEN f.query_result.row_count ELSE None,
     input_tokens |-> f.attempt_input_tokens,
     output_tokens |-> f.attempt_output_tokens]

\* Lines 160-173: the Attempt Record handed to log_attempt.
AttemptRecord(r, f) ==
    [request_id |-> f.request_id,
     attempt_number |-> f.attempt + 1,
     client |-> client_name(r),
     nlq |-> question(r),
     sql |-> f.sql,
     success |-> f.query_result.success,
     error_message |-> f.query_result.error,
     row_count |-> IF f.query_result.success THEN f.query_result.row_count ELSE None,
     input_tokens |-> f.attempt_input_tokens,
     output_tokens |-> f.attempt_output_tokens]

\* InsertRecord as an upsert keyed by request_id: the row of an earlier
\* attempt of the request is replaced.
InsertRecordUpsert(table, record) ==
    Append(SelectSeq(table, LAMBDA rec : rec.request_id # record.request_id), record)

\* log_attempt's INSERT INTO query_log: one row added at the end.
InsertRecord(table, record) == Append(table, record)

\* SuccessOutcome that hands out a fresh empty list as the error trail.
SuccessOutcomeEmptyTrail(f) ==
    [success |-> TRUE,
     columns |-> f.query_result.columns,
     rows |-> f.query_result.rows,
     row_count |-> f.query_result.row_count,
     sql |-> f.sql,
     retry_count |-> f.attempt,
     errors |-> <<>>,
     input_tokens |-> f.total_input_tokens,
     output_tokens |-> f.total_output_tokens]

\* SuccessOutcome that reports the 1-based attempt number as retry_count.
SuccessOutcomeAttemptNumber(f) ==
    [success |-> TRUE,
     columns |-> f.query_result.columns,
     rows |-> f.query_result.rows,
     row_count |-> f.query_result.row_count,
     sql |-> f.sql,
     retry_count |-> f.attempt + 1,
     errors |-> f.errors,
     input_tokens |-> f.total_input_tokens,
     output_tokens |-> f.total_output_tokens]

\* Lines 176-186: the Loop Outcome returned on success.
SuccessOutcome(f) ==
    [success |-> TRUE,
     columns |-> f.query_result.columns,
     rows |-> f.query_result.rows,
     row_count |-> f.query_result.row_count,
     sql |-> f.sql,
     retry_count |-> f.attempt,
     errors |-> f.errors,
     input_tokens |-> f.total_input_tokens,
     output_tokens |-> f.total_output_tokens]

\* Lines 194-204: the Loop Outcome returned when the loop ran out.
FailureOutcome(f, budget) ==
    [success |-> FALSE,
     columns |-> None,
     rows |-> None,
     row_count |-> 0,
     sql |-> f.sql,
     retry_count |-> budget,
     errors |-> f.errors,
     input_tokens |-> f.total_input_tokens,
     output_tokens |-> f.total_output_tokens]

\* SaveForRetry that sets previous_sql only while it is None: the error of
\* the newest failure travels with the SQL of the first.
SaveForRetryFirstSql(f) ==
    [f EXCEPT !.errors = Append(@, [sql |-> f.sql, error |-> f.query_result.error]),
              !.previous_sql = IF @ = None THEN f.sql ELSE @,
              !.previous_error = f.query_result.error]

\* SaveForRetry with errors.insert(0, ...): the newest failure comes first.
SaveForRetryPrepend(f) ==
    [f EXCEPT !.errors = <<[sql |-> f.sql, error |-> f.query_result.error]>> \o @,
              !.previous_sql = f.sql,
              !.previous_error = f.query_result.error]

\* Lines 189-191: the failed attempt joins the trail and becomes "previous".
SaveForRetry(f) ==
    [f EXCEPT !.errors = Append(@, [sql |-> f.sql, error |-> f.query_result.error]),
              !.previous_sql = f.sql,
              !.previous_error = f.query_result.error]

\* Line 140: range(max_retries + 1) holds a value after `attempt`.
HasNextAttempt(f, budget) == f.attempt + 1 < budget + 1

\* One more call in the request's call history.
Called(r, call) == [calls EXCEPT ![r] = Append(@, call)]

\* No function is examined on its own.
NoCall == [fn |-> None, args |-> <<>>, returned |-> FALSE, result |-> <<>>]

\* The threads in which the front end runs tool calls side by side; each
\* makes one execute_query call.
Threads == {"t1", "t2"}

\* No handle yet (a local that is not assigned).
NoHandle == [key |-> <<>>, by |-> None]

\* The statement a thread's call carries, and the columns and rows the
\* engine answers it with.
statement(t) == IF t = "t1" THEN "SELECT a FROM t" ELSE "SELECT b FROM t"

description(sql) == IF sql = "SELECT a FROM t" THEN <<"a">> ELSE <<"b">>

fetchall(sql) == IF sql = "SELECT a FROM t" THEN << <<1>> >> ELSE << <<2>>, <<3>> >>

\* Locals of an execute_query call on a tool's configuration.
CallFrame(tool, key, sql) ==
    [tool |-> tool, cache_key |-> key, sql |-> sql, new_con |-> NoHandle,
     con |-> NoHandle, rows |-> <<>>, columns |-> <<>>,
     result |-> ExecFailure(None), exception |-> None]

IdleCall == CallFrame(None, <<>>, None)

\* The handle the n-th duckdb.connect of a thread on the log store returns:
\* a new connection object each time.
log_connect(t, n) == [by |-> t, n |-> n]

\* No handle yet (`con` is not assigned).
NoLogHandle == [by |-> None, n |-> 0]

\* Locals of a log_attempt call: the record to insert, the handle `con` and
\* the exception under way; `n` counts the thread's calls.
LogFrame(n, record) ==
    [n |-> n, record |-> record, con |-> NoLogHandle, exception |-> None]

\* No log_attempt call runs, no handle was made and the log store is new.
LogIdle ==
    /\ la_pc = [t \in Threads |-> "idle"]
    /\ la_frame = [t \in Threads |-> LogFrame(0, None)]
    /\ log_handles = << >>
    /\ log_table = FALSE

\* ------------------------------------------------------------- strings

\* A Python str is the sequence of its characters.
Lowercase == <<"a", "b", "c", "d", "e", "f", "g", "h", "i", "j", "k", "l", "m", "n", "o", "p", "q", "r", "s", "t", "u", "v", "w", "x", "y", "z">>

Uppercase == <<"A", "B", "C", "D", "E", "F", "G", "H", "I", "J", "K", "L", "M", "N", "O", "P", "Q", "R", "S", "T", "U", "V", "W", "X", "Y", "Z">>

\* str.upper() on one character and on a string.
UpperChar(c) ==
    IF \E i \in 1..Len(Lowercase) : Lowercase[i] = c
    THEN Uppercase[CHOOSE i \in 1..Len(Lowercase) : Lowercase[i] = c]
    ELSE c

upper(s) == [i \in 1..Len(s) |-> UpperChar(s[i])]

\* The character ` (a string literal cannot hold it).
Backtick == "backtick"

\* The characters str.strip() removes.
Whitespace == {" ", "\n", "\t", "\r"}

RECURSIVE lstrip(_)
lstrip(s) == IF s # << >> /\ Head(s) \in Whitespace THEN lstrip(Tail(s)) ELSE s

RECURSIVE rstrip(_)
rstrip(s) ==
    IF s # << >> /\ s[Len(s)] \in Whitespace THEN rstrip(SubSeq(s, 1, Len(s) - 1)) ELSE s

strip(s) == rstrip(lstrip(s))

\* s.startswith(p), s.endswith(p).
startswith(s, p) == Len(s) >= Len(p) /\ SubSeq(s, 1, Len(p)) = p

endswith(s, p) == Len(s) >= Len(p) /\ SubSeq(s, Len(s) - Len(p) + 1, Len(s)) = p

\* p occurs in s at index i (1-based).
OccursAt(s, p, i) == i >= 1 /\ i + Len(p) - 1 <= Len(s) /\ SubSeq(s, i, i + Len(p) - 1) = p

\* `p in s`.
contains(s, p) == \E i \in 1..(Len(s) + 1) : OccursAt(s, p, i)

\* s.find(p) + 1: the index of the leftmost occurrence; 0 when there is none.
find(s, p) ==
    IF contains(s, p)
    THEN CHOOSE i \in 1..(Len(s) + 1) :
            OccursAt(s, p, i) /\ \A j \in 1..(i - 1) : ~OccursAt(s, p, j)
    ELSE 0

\* s.split(p)[0]: what stands before the leftmost occurrence of p.
split_first(s, p) == IF contains(s, p) THEN SubSeq(s, 1, find(s, p) - 1) ELSE s

\* s.split("\n"): the lines of s.
RECURSIVE split_lines(_)
split_lines(s) ==
    IF contains(s, <<"\n">>)
    THEN <<split_first(s, <<"\n">>)>> \o split_lines(SubSeq(s, find(s, <<"\n">>) + 1, Len(s)))
    ELSE <<s>>

\* "\n".join(lines).
RECURSIVE join_lines(_)
join_lines(lines) ==
    IF lines = << >> THEN << >>
    ELSE IF Len(lines) = 1 THEN lines[1]
    ELSE lines[1] \o <<"\n">> \o join_lines(Tail(lines))

\* ------------------------------------------------------------- sanitize_sql

\* The literal 'SELECT WITH' of line 64.
SELECT_WITH == <<"S", "E", "L", "E", "C", "T", " ", "W", "I", "T", "H">>

\* sanitize_sql with the slice sql[6:]: the blank after SELECT stays.
sanitize_sql_six(sql) ==
    LET stripped == strip(sql)
    IN  IF startswith(upper(stripped), SELECT_WITH)
        THEN SubSeq(stripped, 7, Len(stripped))
        ELSE stripped

\* query_executor.sanitize_sql, lines 59-67.
sanitize_sql(sql) ==
    LET stripped == strip(sql)
    IN  IF startswith(upper(stripped), SELECT_WITH)
        THEN SubSeq(stripped, 8, Len(stripped))
        ELSE stripped

\* The statements of the retry loop as Python holds them, character by
\* character: those generate_sql_fn returns and what sanitize_sql makes of
\* them.
chars(sql) ==
    IF sql = "SELECT a FROM t"
    THEN <<"S", "E", "L", "E", "C", "T", " ", "a", " ", "F", "R", "O", "M", " ", "t">>
    ELSE IF sql = "SELECT WITH c AS (SELECT 1) SELECT b FROM c"
    THEN <<"S", "E", "L", "E", "C", "T", " ", "W", "I", "T", "H", " ", "c", " ", "A", "S", " ", "(", "S", "E", "L", "E", "C", "T", " ", "1", ")", " ", "S", "E", "L", "E", "C", "T", " ", "b", " ", "F", "R", "O", "M", " ", "c">>
    ELSE <<"W", "I", "T", "H", " ", "c", " ", "A", "S", " ", "(", "S", "E", "L", "E", "C", "T", " ", "1", ")", " ", "S", "E", "L", "E", "C", "T", " ", "b", " ", "F", "R", "O", "M", " ", "c">>

Statements ==
    { "SELECT a FROM t",
      "SELECT WITH c AS (SELECT 1) SELECT b FROM c",
      "WITH c AS (SELECT 1) SELECT b FROM c" }

\* The statement that consists of the given characters.
str_of(characters) == CHOOSE sql \in Statements : chars(sql) = characters

\* sanitize_sql on each of the statements.
sanitize_sql_of == [sql \in Statements |-> str_of(sanitize_sql(chars(sql)))]

\* execute_query line 82: sql = sanitize_sql(sql), the text that goes to
\* con.execute.
sanitized(sql) == sanitize_sql_of[sql]

\* ------------------------------------------------------------- initial state

\* The configuration as load_config returns it: the data_query tool reads
\* a parquet file and names no table, the log_query tool reads the log
\* store and names its table; the retry budgets are the configured
\* non-negative integers.
LoadedConfig(n, m) ==
    [t \in Tools |->
       IF t = "data_query"
       THEN [max_retries |-> n, db_path |-> None,
             parquet_path |-> "data.parquet", table_name |-> None]
       ELSE [max_retries |-> m, db_path |-> "query_log.duckdb",
             parquet_path |-> None, table_name |-> "query_log"]]

\* server.py has loaded the configuration (line 11); no context is built,
\* no request has been made and the connection cache and the log are empty.
Init ==
    /\ \E n \in 0..MaxRetries, m \in 0..MaxLogRetries :
          tool_config = LoadedConfig(n, m)
    /\ semantic_context = [t \in Tools |-> NoContext]
    /\ introspections = [t \in Tools |-> 0]
    /\ pc = [r \in Requests |-> "idle"]
    /\ frame = [r \in Requests |-> IdleFrame]
    /\ outcome = [r \in Requests |-> None]
    /\ exception = [r \in Requests |-> None]
    /\ query_log = <<>>
    /\ connections = << >>
    /\ calls = [r \in Requests |-> <<>>]
    /\ eq_pc = [t \in Threads |-> "idle"]
    /\ eq_frame = [t \in Threads |-> IdleCall]
    /\ engine = << >>
    /\ pure = NoCall
    /\ LogIdle

\* ------------------------------------------------------------- actions

\* BuildSemanticContext that also writes the defaulted db_path back into
\* the configuration.
BuildSemanticContextWritesPath(t) ==
    /\ introspections[t] = 0
    /\ t = "log_query" => introspections["data_query"] = 1
    /\ LET source == get_data_source(tool_config[t], show_tables(t))
       IN  /\ ~source.raised
           /\ tool_config' = [tool_config EXCEPT ![t].table_name = source.table_name,
                                                 ![t].db_path = ConfigGet(@, "")]
           /\ semantic_context' =
                 [semantic_context EXCEPT
                    ![t] = format_context_for_prompt(source.table_name,
                                                     introspect(t, query_log))]
    /\ introspections' = [introspections EXCEPT ![t] = @ + 1]
    /\ UNCHANGED <<pc, frame, outcome, exception, query_log, connections, calls,
                   eq_pc, eq_frame, engine, pure, log_vars>>

\* server.py lines 17-19 and 22-24: build_semantic_context and
\* format_context_for_prompt for one tool, the data_query tool first.
\* build_semantic_context writes the resolved table name into the
\* configuration (semantic_layer.py line 75).
BuildSemanticContext(t) ==
    /\ introspections[t] = 0
    /\ t = "log_query" => introspections["data_query"] = 1
    /\ LET source == get_data_source(tool_config[t], show_tables(t))
       IN  /\ ~source.raised
           /\ tool_config' = [tool_config EXCEPT ![t].table_name = source.table_name]
           /\ semantic_context' =
                 [semantic_context EXCEPT
                    ![t] = format_context_for_prompt(source.table_name,
                                                     introspect(t, query_log))]
    /\ introspections' = [introspections EXCEPT ![t] = @ + 1]
    /\ UNCHANGED <<pc, frame, outcome, exception, query_log, connections, calls,
                   eq_pc, eq_frame, engine, pure, log_vars>>

\* The module body of server.py has run: the tools take requests.
Serving == \A t \in Tools : introspections[t] = 1

\* server.query_data / server.query_logs call execute_with_retry with the
\* tool's context (server.py lines 69-76, 107-114); lines 131-140, up to
\* the first iteration.
Start(r) ==
    /\ Serving
    /\ pc[r] = "idle"
    /\ frame' = [frame EXCEPT
                   ![r] = [InitialFrame(uuid4(r, 1)) EXCEPT
                             !.semantic_context = semantic_context[ToolOf(r)]]]
    /\ pc' = [pc EXCEPT ![r] = "generate"]
    /\ UNCHANGED <<rest, tool_config, outcome, exception, query_log, connections, calls>>

\* Generate that builds the context anew for the call: the source is
\* introspected once more and the fresh text goes to generate_sql_fn.
GenerateReintrospect(r) ==
    /\ pc[r] = "generate"
    /\ \E llm_result \in GenerationResults :
         /\ frame' = [frame EXCEPT ![r] = AccumulateTokens(@, llm_result)]
         /\ calls' = Called(r, [op |-> "generate",
                                semantic_context |->
                                  format_context_for_prompt(
                                    tool_config[ToolOf(r)].table_name,
                                    introspect(ToolOf(r), query_log)),
                                previous_sql |-> frame[r].previous_sql,
                                previous_error |-> frame[r].previous_error,
                                raised |-> FALSE,
                                result |-> llm_result])
    /\ pc' = [pc EXCEPT ![r] = "execute"]
    /\ UNCHANGED <<rest, tool_config, outcome, exception, query_log, connections>>

\* Lines 142-154: generate_sql_fn is called with the semantic_context
\* parameter and returns.
Generate(r) ==
    /\ pc[r] = "generate"
    /\ \E llm_result \in GenerationResults :
         /\ frame' = [frame EXCEPT ![r] = AccumulateTokens(@, llm_result)]
         /\ calls' = Called(r, [op |-> "generate",
                                semantic_context |-> frame[r].semantic_context,
                                previous_sql |-> frame[r].previous_sql,
                                previous_error |-> frame[r].previous_error,
                                raised |-> FALSE,
                                result |-> llm_result])
    /\ pc' = [pc EXCEPT ![r] = "execute"]
    /\ UNCHANGED <<rest, tool_config, outcome, exception, query_log, connections>>

\* GenerateRaises inside a try/except that lets the loop go on: the
\* exception is kept and the call is made again.
GenerateRaisesSwallowed(r) ==
    /\ pc[r] = "generate"
    /\ Len(calls[r]) < 3 * (max_retries(r) + 1)
    /\ calls' = Called(r, [op |-> "generate",
                           semantic_context |-> frame[r].semantic_context,
                           previous_sql |-> frame[r].previous_sql,
                           previous_error |-> frame[r].previous_error,
                           raised |-> TRUE,
                           result |-> None])
    /\ exception' = [exception EXCEPT ![r] = "LLMError"]
    /\ pc' = [pc EXCEPT ![r] = "generate"]
    /\ UNCHANGED <<rest, tool_config, frame, outcome, query_log, connections>>

\* Lines 142-148: generate_sql_fn raises (call_llm: provider or network
\* error, unsupported provider); nothing catches it.
GenerateRaises(r) ==
    /\ pc[r] = "generate"
    /\ calls' = Called(r, [op |-> "generate",
                           semantic_context |-> frame[r].semantic_context,
                           previous_sql |-> frame[r].previous_sql,
                           previous_error |-> frame[r].previous_error,
                           raised |-> TRUE,
                           result |-> None])
    /\ exception' = [exception EXCEPT ![r] = "LLMError"]
    /\ pc' = [pc EXCEPT ![r] = "raised"]
    /\ UNCHANGED <<rest, tool_config, frame, outcome, query_log, connections>>

\* Execute in which the sanitized text replaces the loop's `sql`.
ExecuteKeepsSanitized(r) ==
    /\ pc[r] = "execute"
    /\ \E query_result \in ExecutionResults(sanitized(frame[r].sql)) :
         /\ frame' = [frame EXCEPT ![r].query_result = query_result,
                                   ![r].sql = sanitized(frame[r].sql)]
         /\ calls' = Called(r, [op |-> "execute",
                                sql |-> frame[r].sql,
                                executed |-> sanitized(frame[r].sql),
                                raised |-> FALSE,
                                result |-> query_result])
    /\ connections' =
         IF cache_key(ToolOf(r)) \in DOMAIN connections THEN connections
         ELSE connections @@ (cache_key(ToolOf(r)) :> connect(cache_key(ToolOf(r)), r))
    /\ pc' = [pc EXCEPT ![r] = "log"]
    /\ UNCHANGED <<rest, tool_config, outcome, exception, query_log>>

\* Line 157: execute_query returns an Execution Result.  get_connection
\* finds the handle in the cache or creates it; the engine is given the
\* sanitized text (line 82, a local of execute_query); an exception of the
\* statement becomes a failure result (lines 85-107).
Execute(r) ==
    /\ pc[r] = "execute"
    /\ \E query_result \in ExecutionResults(sanitized(frame[r].sql)) :
         /\ frame' = [frame EXCEPT ![r].query_result = query_result]
         /\ calls' = Called(r, [op |-> "execute",
                                sql |-> frame[r].sql,
                                executed |-> sanitized(frame[r].sql),
                                raised |-> FALSE,
                                result |-> query_result])
    /\ connections' =
         IF cache_key(ToolOf(r)) \in DOMAIN connections THEN connections
         ELSE connections @@ (cache_key(ToolOf(r)) :> connect(cache_key(ToolOf(r)), r))
    /\ pc' = [pc EXCEPT ![r] = "log"]
    /\ UNCHANGED <<rest, tool_config, outcome, exception, query_log>>

\* Line 157 with line 79: get_connection runs outside execute_query's try,
\* so a failure to open the source (no handle cached yet) leaves
\* execute_query and execute_with_retry as an exception.
ExecuteRaises(r) ==
    /\ pc[r] = "execute"
    /\ cache_key(ToolOf(r)) \notin DOMAIN connections
    /\ calls' = Called(r, [op |-> "execute",
                           sql |-> frame[r].sql,
                           raised |-> TRUE,
                           result |-> None])
    /\ exception' = [exception EXCEPT ![r] = "ConnectionError"]
    /\ pc' = [pc EXCEPT ![r] = "raised"]
    /\ UNCHANGED <<rest, tool_config, frame, outcome, query_log, connections>>

\* Lines 160-173: log_attempt returns; the record is in the table.
LogAttempt(r) ==
    /\ pc[r] = "log"
    /\ query_log' = InsertRecord(query_log, AttemptRecord(r, frame[r]))
    /\ calls' = Called(r, [op |-> "log",
                           record |-> AttemptRecord(r, frame[r]),
                           raised |-> FALSE])
    /\ pc' = [pc EXCEPT ![r] = "evaluate"]
    /\ UNCHANGED <<rest, tool_config, frame, outcome, exception, connections>>

\* Lines 160-173: log_attempt raises (duckdb.connect on the log store, the
\* CREATE TABLE or the INSERT fails; `finally` closes the handle and the
\* exception goes on); no row was added and nothing catches it.
LogAttemptRaises(r) ==
    /\ pc[r] = "log"
    /\ calls' = Called(r, [op |-> "log",
                           record |-> AttemptRecord(r, frame[r]),
                           raised |-> TRUE])
    /\ exception' = [exception EXCEPT ![r] = "LogError"]
    /\ pc' = [pc EXCEPT ![r] = "raised"]
    /\ UNCHANGED <<rest, tool_config, frame, outcome, query_log, connections>>

\* Lines 175-186: the execution succeeded; return.
ReturnSuccess(r) ==
    /\ pc[r] = "evaluate"
    /\ frame[r].query_result.success
    /\ outcome' = [outcome EXCEPT ![r] = SuccessOutcome(frame[r])]
    /\ pc' = [pc EXCEPT ![r] = "returned"]
    /\ UNCHANGED <<rest, tool_config, frame, exception, query_log, connections, calls>>

\* Lines 188-191 and 140: the execution failed and the loop goes on.
Retry(r) ==
    /\ pc[r] = "evaluate"
    /\ ~frame[r].query_result.success
    /\ HasNextAttempt(frame[r], max_retries(r))
    /\ frame' = [frame EXCEPT ![r] = [SaveForRetry(@) EXCEPT !.attempt = @ + 1]]
    /\ pc' = [pc EXCEPT ![r] = "generate"]
    /\ UNCHANGED <<rest, tool_config, outcome, exception, query_log, connections, calls>>

\* Lines 188-204: the execution failed and the loop is over; return.
ReturnExhausted(r) ==
    /\ pc[r] = "evaluate"
    /\ ~frame[r].query_result.success
    /\ ~HasNextAttempt(frame[r], max_retries(r))
    /\ frame' = [frame EXCEPT ![r] = SaveForRetry(@)]
    /\ outcome' = [outcome EXCEPT ![r] =
                     FailureOutcome(SaveForRetry(frame[r]), max_retries(r))]
    /\ pc' = [pc EXCEPT ![r] = "returned"]
    /\ UNCHANGED <<rest, tool_config, exception, query_log, connections, calls>>

Next ==
    \/ \E t \in Tools : BuildSemanticContext(t)
    \/ \E r \in Requests : Start(r)
    \/ \E r \in Requests : Generate(r)
    \/ \E r \in Requests : GenerateRaises(r)
    \/ \E r \in Requests : Execute(r)
    \/ \E r \in Requests : ExecuteRaises(r)
    \/ \E r \in Requests : LogAttempt(r)
    \/ \E r \in Requests : LogAttemptRaises(r)
    \/ \E r \in Requests : ReturnSuccess(r)
    \/ \E r \in Requests : Retry(r)
    \/ \E r \in Requests : ReturnExhausted(r)

Spec == Init /\ [][Next]_vars

\* ------------------------------------------------------------- call history

IsGenerate(c) == c.op = "generate"
IsExecute(c) == c.op = "execute"
IsLog(c) == c.op = "log"
Returned(c) == ~c.raised

\* The request's generation calls, and those that returned.
GenCalls(r) == SelectSeq(calls[r], IsGenerate)
GenReturned(r) == SelectSeq(GenCalls(r), Returned)

\* The request's execute_query calls, those that returned, those that
\* returned a failure result.
ExecCalls(r) == SelectSeq(calls[r], IsExecute)
ExecReturned(r) == SelectSeq(ExecCalls(r), Returned)
ExecFailed(r) == SelectSeq(ExecReturned(r), LAMBDA c : ~c.result.success)

\* The request's log_attempt calls, and those that returned.
LogCalls(r) == SelectSeq(calls[r], IsLog)
LogReturned(r) == SelectSeq(LogCalls(r), Returned)

\* The rows of query_log that carry the request's identifier.
RecordsOf(r) ==
    IF pc[r] = "idle" THEN <<>>
    ELSE SelectSeq(query_log, LAMBDA rec : rec.request_id = frame[r].request_id)

\* The request is over: it returned a Loop Outcome or an exception left it.
Ended(r) == pc[r] \in {"returned", "raised"}

\* The input and output token counts reported by generation calls, summed.
RECURSIVE SumInputTokens(_)
SumInputTokens(cs) ==
    IF cs = <<>> THEN 0 ELSE Head(cs).result.input_tokens + SumInputTokens(Tail(cs))

RECURSIVE SumOutputTokens(_)
SumOutputTokens(cs) ==
    IF cs = <<>> THEN 0 ELSE Head(cs).result.output_tokens + SumOutputTokens(Tail(cs))

\* ------------------------------------------------------------- C1

\* C1: with max_retries = N a request makes at most N + 1 generation calls,
\* persists exactly one Attempt Record per generation call that returned
\* (once that call's iteration, or the request, is over), and makes no
\* generation, execution or log call after the log call of the first
\* successful execution.
C1_OneRecordPerGenerationCall ==
    \A r \in Requests :
        /\ Len(GenCalls(r)) <= max_retries(r) + 1
        /\ pc[r] \in {"generate", "evaluate", "returned", "raised"}
              => Len(RecordsOf(r)) = Len(GenReturned(r))
        /\ \A i \in 1..Len(calls[r]) :
              (IsExecute(calls[r][i]) /\ Returned(calls[r][i])
                                      /\ calls[r][i].result.success)
                 => /\ Len(calls[r]) <= i + 1
                    /\ Len(calls[r]) = i + 1 => IsLog(calls[r][i + 1])

\* The part of C1 that the exceptions of execute_query and log_attempt leave
\* standing: at most N + 1 generation calls, nothing after the log call of
\* the first successful execution, never more records than generation calls
\* that returned, and one record per iteration that ran to its end.
C1_BudgetAndStop ==
    \A r \in Requests :
        /\ Len(GenCalls(r)) <= max_retries(r) + 1
        /\ Len(RecordsOf(r)) <= Len(GenReturned(r))
        /\ Len(RecordsOf(r)) = Len(LogReturned(r))
        /\ pc[r] \in {"generate", "evaluate", "returned"}
              => Len(RecordsOf(r)) = Len(GenReturned(r))
        /\ \A i \in 1..Len(calls[r]) :
              (IsExecute(calls[r][i]) /\ Returned(calls[r][i])
                                      /\ calls[r][i].result.success)
                 => /\ Len(calls[r]) <= i + 1
                    /\ Len(calls[r]) = i + 1 => IsLog(calls[r][i + 1])

\* ------------------------------------------------------------- C2

\* C2: the token totals of every returned Loop Outcome are the sums of the
\* counts reported by every generation call of the request, failed
\* attempts included.
C2_TokenTotals ==
    \A r \in Requests :
        pc[r] = "returned" =>
            /\ outcome[r].input_tokens = SumInputTokens(GenReturned(r))
            /\ outcome[r].output_tokens = SumOutputTokens(GenReturned(r))

\* A request that failed twice and then succeeded has returned.
C2_Witness ==
    \E r \in Requests :
        /\ pc[r] = "returned"
        /\ outcome[r].success
        /\ Len(ExecFailed(r)) = 2
        /\ Len(GenReturned(r)) = 3
        /\ GenReturned(r)[1].result # GenReturned(r)[2].result

\* ------------------------------------------------------------- C3

\* C3 as claimed: on Success the returned error trail is empty.
C3_SuccessTrailEmpty ==
    \A r \in Requests :
        (pc[r] = "returned" /\ outcome[r].success) => outcome[r].errors = <<>>

\* C3 amended: on Success the error trail holds one entry per failed attempt
\* that preceded the success (retry_count entries); it is empty exactly
\* when the first attempt succeeded.
C3_SuccessTrailHoldsEarlierFailures ==
    \A r \in Requests :
        (pc[r] = "returned" /\ outcome[r].success) =>
            /\ Len(outcome[r].errors) = Len(ExecFailed(r))
            /\ Len(outcome[r].errors) = outcome[r].retry_count
            /\ (outcome[r].errors = <<>>) <=> (Len(ExecReturned(r)) = 1)

\* A request succeeded on its second attempt.
C3_Witness ==
    \E r \in Requests :
        /\ pc[r] = "returned"
        /\ outcome[r].success
        /\ Len(ExecReturned(r)) = 2
        /\ Len(outcome[r].errors) = 1

\* ------------------------------------------------------------- C4

\* The {sql, error} entry of a failed attempt: the SQL the attempt's
\* generation call returned and the error text its execution reported.
TrailEntry(r, i) ==
    [sql |-> GenReturned(r)[i].result.sql, error |-> ExecReturned(r)[i].result.error]

\* C4: the error trail of every returned Loop Outcome holds, in attempt
\* order, exactly one {sql, error} entry per attempt whose execution failed.
C4_ErrorTrail ==
    \A r \in Requests :
        pc[r] = "returned" =>
            LET failed == Len(ExecFailed(r)) IN
            /\ Len(outcome[r].errors) = failed
            /\ \A i \in 1..failed :
                  /\ ~ExecReturned(r)[i].result.success
                  /\ outcome[r].errors[i] = TrailEntry(r, i)
            /\ outcome[r].success => failed = Len(ExecReturned(r)) - 1
            /\ ~outcome[r].success => failed = max_retries(r) + 1

\* One request ran out of a budget of two retries with three different
\* entries while the other succeeded after one failure.
C4_Witness ==
    \E r, q \in Requests :
        /\ pc[r] = "returned" /\ ~outcome[r].success
        /\ Len(outcome[r].errors) = 3
        /\ outcome[r].errors[1] # outcome[r].errors[2]
        /\ pc[q] = "returned" /\ outcome[q].success
        /\ Len(outcome[q].errors) = 1

\* ------------------------------------------------------------- C5

\* C5: retry_count of every returned Loop Outcome is the number of
\* generation calls made minus one: k - 1 on success at attempt k,
\* max_retries on exhaustion.
C5_RetryCount ==
    \A r \in Requests :
        pc[r] = "returned" =>
            /\ outcome[r].retry_count = Len(GenCalls(r)) - 1
            /\ outcome[r].success => outcome[r].retry_count = Len(ExecReturned(r)) - 1
            /\ ~outcome[r].success => outcome[r].retry_count = max_retries(r)

\* A request succeeded at its third attempt and the other ran out of a
\* budget of one retry.
C5_Witness ==
    \E r, q \in Requests :
        /\ pc[r] = "returned" /\ outcome[r].success /\ outcome[r].retry_count = 2
        /\ pc[q] = "returned" /\ ~outcome[q].success /\ outcome[q].retry_count = 1

\* ------------------------------------------------------------- C6

\* C6: when every attempt of a request failed to execute and the budget is
\* used up (max_retries + 1 failure results), the request returns, and does
\* not raise, a Loop Outcome with success = false, no columns or rows, the
\* last attempt's SQL, the full error trail and the accumulated token
\* totals.
C6_ExhaustionReturnsFailureOutcome ==
    \A r \in Requests :
        (Ended(r) /\ Len(ExecFailed(r)) = max_retries(r) + 1) =>
            /\ pc[r] = "returned"
            /\ exception[r] = None
            /\ ~outcome[r].success
            /\ outcome[r].columns = None
            /\ outcome[r].rows = None
            /\ outcome[r].row_count = 0
            /\ outcome[r].sql = GenReturned(r)[Len(GenReturned(r))].result.sql
            /\ outcome[r].errors = [i \in 1..Len(ExecFailed(r)) |-> TrailEntry(r, i)]
            /\ outcome[r].input_tokens = SumInputTokens(GenReturned(r))
            /\ outcome[r].output_tokens = SumOutputTokens(GenReturned(r))

\* The part of C6 that a log_attempt exception leaves standing: a request
\* that returned without success ran out of its budget, and its Loop Outcome
\* is the one C6 describes.
C6_ExhaustedOutcome ==
    \A r \in Requests :
        (pc[r] = "returned" /\ ~outcome[r].success) =>
            /\ Len(ExecFailed(r)) = max_retries(r) + 1
            /\ Len(ExecReturned(r)) = max_retries(r) + 1
            /\ outcome[r].columns = None
            /\ outcome[r].rows = None
            /\ outcome[r].row_count = 0
            /\ outcome[r].sql = GenReturned(r)[Len(GenReturned(r))].result.sql
            /\ outcome[r].errors = [i \in 1..Len(ExecFailed(r)) |-> TrailEntry(r, i)]
            /\ outcome[r].input_tokens = SumInputTokens(GenReturned(r))
            /\ outcome[r].output_tokens = SumOutputTokens(GenReturned(r))

\* ------------------------------------------------------------- C7

\* C7: when the generation call of attempt k raises, the request ends at
\* once with that exception: that call is its last, attempt k executes no
\* SQL and writes no record, and the k - 1 records written before stay in
\* the log.
C7_GenerationFailurePropagates ==
    \A r \in Requests :
        /\ \A i \in 1..Len(calls[r]) :
              (IsGenerate(calls[r][i]) /\ calls[r][i].raised) =>
                  /\ i = Len(calls[r])
                  /\ pc[r] = "raised"
                  /\ exception[r] = "LLMError"
        /\ exception[r] = "LLMError" =>
              LET k == Len(GenCalls(r)) IN
              /\ pc[r] = "raised"
              /\ outcome[r] = None
              /\ GenCalls(r)[k].raised
              /\ Len(GenReturned(r)) = k - 1
              /\ Len(ExecCalls(r)) = k - 1
              /\ Len(LogCalls(r)) = k - 1
              /\ Len(RecordsOf(r)) = k - 1
              /\ \A i \in 1..(k - 1) : RecordsOf(r)[i] = LogCalls(r)[i].record

\* The generation call of a third attempt raised: two records are in the
\* log, and the other request went on to write a record after that.
C7_Witness ==
    \E r, q \in Requests :
        /\ exception[r] = "LLMError"
        /\ Len(GenCalls(r)) = 3
        /\ Len(RecordsOf(r)) = 2
        /\ q # r
        /\ Len(query_log) >= 3
        /\ query_log[Len(query_log)].nlq = question(q)

\* ------------------------------------------------------------- C8

\* C8: a failure inside log_attempt does not change the loop's control
\* flow: after a log_attempt call that raised, the request goes on to
\* evaluate the execution result (next attempt, or the Loop Outcome it
\* would have returned) and is not ended by the logging exception.
C8_LogFailureDoesNotAbort ==
    \A r \in Requests :
        \A i \in 1..Len(calls[r]) :
            (IsLog(calls[r][i]) /\ calls[r][i].raised) =>
                /\ pc[r] # "raised"
                /\ exception[r] # "LogError"

\* ------------------------------------------------------------- C9

\* The number of rows before row j that carry row j's request identifier.
EarlierRowsOfSameRequest(j) ==
    Cardinality({ i \in 1..(j - 1) : query_log[i].request_id = query_log[j].request_id })

\* C9: the Attempt Record of an iteration is written after the iteration's
\* execution and before its result is evaluated (before the success return,
\* the trail entry and the next generation call); all records of a request
\* carry one request identifier, which no other request uses; and the
\* attempt numbers under an identifier are 1, 2, 3, ... in write order,
\* however the requests interleave.
C9_LogOrderAndNumbering ==
    /\ \A r \in Requests :
          LET cs == calls[r]
              logs == LogCalls(r)
          IN
          /\ \A i \in 1..Len(cs) :
                IsLog(cs[i]) =>
                    /\ i > 1
                    /\ IsExecute(cs[i - 1]) /\ Returned(cs[i - 1])
                    /\ cs[i].record.sql = cs[i - 1].sql
                    /\ cs[i].record.success = cs[i - 1].result.success
                    /\ cs[i].record.error_message = cs[i - 1].result.error
          /\ \A i \in 2..Len(cs) :
                IsGenerate(cs[i]) => IsLog(cs[i - 1]) /\ Returned(cs[i - 1])
          /\ pc[r] \in {"execute", "log"} =>
                /\ outcome[r] = None
                /\ Len(frame[r].errors) = Len(logs)
                /\ Len(RecordsOf(r)) = Len(ExecReturned(r)) - (IF pc[r] = "log" THEN 1 ELSE 0)
          /\ pc[r] = "returned" => IsLog(cs[Len(cs)]) /\ Returned(cs[Len(cs)])
          /\ \A i \in 1..Len(logs) :
                /\ logs[i].record.request_id = logs[1].record.request_id
                /\ logs[i].record.attempt_number = i
          /\ \A q \in Requests :
                (q # r /\ logs # <<>> /\ LogCalls(q) # <<>>) =>
                    logs[1].record.request_id # LogCalls(q)[1].record.request_id
    /\ \A j \in 1..Len(query_log) :
          query_log[j].attempt_number = EarlierRowsOfSameRequest(j) + 1

\* Two requests wrote their first and second records alternately.
C9_Witness ==
    /\ Len(query_log) >= 4
    /\ query_log[1].request_id # query_log[2].request_id
    /\ query_log[3].request_id = query_log[1].request_id
    /\ query_log[4].request_id = query_log[2].request_id
    /\ query_log[3].attempt_number = 2
    /\ query_log[4].attempt_number = 2

\* ------------------------------------------------------------- C10

\* A log_attempt call returns in this step.
LogAttemptReturns ==
    \E r \in Requests :
        /\ Len(calls'[r]) = Len(calls[r]) + 1
        /\ IsLog(calls'[r][Len(calls'[r])])
        /\ Returned(calls'[r][Len(calls'[r])])

\* C10: the attempt log is append-only: every log_attempt call that
\* completes adds exactly one record, the one it was given, at the end; no
\* other step touches the table; no row already there is changed or removed.
C10_AppendOnly ==
    [][ /\ Len(query_log') >= Len(query_log)
        /\ SubSeq(query_log', 1, Len(query_log)) = query_log
        /\ LogAttemptReturns =>
              /\ Len(query_log') = Len(query_log) + 1
              /\ \E r \in Requests :
                    /\ calls'[r] # calls[r]
                    /\ query_log'[Len(query_log')] = calls'[r][Len(calls'[r])].record
        /\ ~LogAttemptReturns => query_log' = query_log ]_vars

\* The record of a failed attempt is still in the log after the record of
\* the same request's later success.
C10_Witness ==
    \E i, j \in 1..Len(query_log) :
        /\ i < j
        /\ query_log[i].request_id = query_log[j].request_id
        /\ ~query_log[i].success
        /\ query_log[j].success


\* ------------------------------------------------------------- C14

\* The text server.py built for a tool at startup, when the log was empty.
StartupContext(t) == format_context_for_prompt(tool_config[t].table_name, 0)

\* C14: the Semantic Context of each tool is built once, at startup,
\* before any request runs, and every generation call of every request
\* gets that same text; nothing introspects the source again.
C14_ContextBuiltOnceAndReused ==
    /\ \A t \in Tools : introspections[t] <= 1
    /\ \A t \in Tools : introspections[t] = 1 => semantic_context[t] = StartupContext(t)
    /\ \A r \in Requests :
          pc[r] # "idle" =>
             /\ introspections[ToolOf(r)] = 1
             /\ \A i \in 1..Len(calls[r]) :
                   IsGenerate(calls[r][i]) =>
                      calls[r][i].semantic_context = StartupContext(ToolOf(r))

\* A request on the log store has made its second generation call after
\* rows were logged: an introspection now would see another source.
C14_Witness ==
    /\ Len(GenCalls("r2")) >= 2
    /\ introspect("log_query", query_log) > 0
    /\ GenCalls("r2")[2].semantic_context = semantic_context["log_query"]

\* ------------------------------------------------------------- C15

\* C15: a Tool Configuration is immutable after load: every field of
\* every tool configuration is as load_config returned it.
C15_ConfigAsLoaded ==
    \E n \in 0..MaxRetries, m \in 0..MaxLogRetries : tool_config = LoadedConfig(n, m)

\* The step is a build_semantic_context call on tool t.
IsBuildStep(t) == introspections'[t] = introspections[t] + 1

\* C15 as the code has it: build_semantic_context writes the resolved
\* table name into the configuration it is given and leaves every other
\* field alone; the steps of execute_with_retry (generate_sql,
\* execute_query with get_connection, log_attempt) change no field.
C15_OnlyBuildWritesTableName ==
    [][\A t \in Tools :
          IF IsBuildStep(t)
          THEN tool_config'[t] =
                 [tool_config[t] EXCEPT
                    !.table_name = get_data_source(tool_config[t], show_tables(t)).table_name]
          ELSE tool_config'[t] = tool_config[t]]_vars

\* Startup has replaced the absent table name of the data_query tool, and
\* a request on that tool has run to its end on the changed configuration.
C15_Witness ==
    /\ tool_config["data_query"].table_name = "data"
    /\ \A n \in 0..MaxRetries, m \in 0..MaxLogRetries : tool_config # LoadedConfig(n, m)
    /\ pc["r1"] = "returned"
    /\ cache_key("data_query") \in DOMAIN connections

\* ------------------------------------------------------------- execute_query

\* The configuration once server.py has built both contexts: each
\* "database" section holds the resolved table name.
StartedConfig(n, m) ==
    [t \in Tools |->
       [LoadedConfig(n, m)[t] EXCEPT
          !.table_name = get_data_source(LoadedConfig(n, m)[t], show_tables(t)).table_name]]

\* What the steps of execute_query never assign.
loop_vars == <<tool_config, semantic_context, introspections, pc, frame, outcome,
               exception, query_log, calls, pure, log_vars>>

\* The server is up and no tool call has been made.
ConnInit ==
    /\ tool_config = StartedConfig(0, 0)
    /\ semantic_context =
         [t \in Tools |-> format_context_for_prompt(tool_config[t].table_name, 0)]
    /\ introspections = [t \in Tools |-> 1]
    /\ pc = [r \in Requests |-> "idle"]
    /\ frame = [r \in Requests |-> IdleFrame]
    /\ outcome = [r \in Requests |-> None]
    /\ exception = [r \in Requests |-> None]
    /\ query_log = <<>>
    /\ connections = << >>
    /\ calls = [r \in Requests |-> <<>>]
    /\ eq_pc = [t \in Threads |-> "idle"]
    /\ eq_frame = [t \in Threads |-> IdleCall]
    /\ engine = << >>
    /\ pure = NoCall
    /\ LogIdle

\* execute_query(sql, tool_config) is called; line 79 enters get_connection,
\* which computes the cache key (lines 25-32, 40-43).
Call(t, tool) ==
    /\ eq_pc[t] = "idle"
    /\ eq_frame' = [eq_frame EXCEPT ![t] = CallFrame(tool, cache_key(tool), statement(t))]
    /\ eq_pc' = [eq_pc EXCEPT ![t] = "lookup"]
    /\ UNCHANGED <<loop_vars, connections, engine>>

\* Lines 34 and 45: `if cache_key not in _connections`.
Lookup(t) ==
    /\ eq_pc[t] = "lookup"
    /\ eq_pc' = [eq_pc EXCEPT ![t] = IF eq_frame[t].cache_key \in DOMAIN connections
                                     THEN "get" ELSE "connect"]
    /\ UNCHANGED <<loop_vars, connections, eq_frame, engine>>

\* Lines 35 and 47-52: duckdb.connect makes a handle (and, for a parquet
\* file, the view on it).
Connect(t) ==
    /\ eq_pc[t] = "connect"
    /\ LET con == connect(eq_frame[t].cache_key, t)
       IN  /\ engine' = engine @@ (con :> None)
           /\ eq_frame' = [eq_frame EXCEPT ![t].new_con = con]
    /\ eq_pc' = [eq_pc EXCEPT ![t] = "store"]
    /\ UNCHANGED <<loop_vars, connections>>

\* Lines 35 and 47-52: duckdb.connect or the CREATE VIEW raises (the file
\* is missing or locked); line 79 is outside the try of execute_query.
ConnectRaises(t) ==
    /\ eq_pc[t] = "connect"
    /\ eq_frame' = [eq_frame EXCEPT ![t].exception = "ConnectionError"]
    /\ eq_pc' = [eq_pc EXCEPT ![t] = "raised"]
    /\ UNCHANGED <<loop_vars, connections, engine>>

\* Lines 35 and 53: `_connections[cache_key] = con`.
Store(t) ==
    /\ eq_pc[t] = "store"
    /\ connections' =
         [k \in DOMAIN connections \cup {eq_frame[t].cache_key} |->
            IF k = eq_frame[t].cache_key THEN eq_frame[t].new_con ELSE connections[k]]
    /\ eq_pc' = [eq_pc EXCEPT ![t] = "get"]
    /\ UNCHANGED <<loop_vars, eq_frame, engine>>

\* Lines 37 and 54: `return _connections[cache_key]`; line 82 leaves the
\* statements of these calls as they are.
GetCached(t) ==
    /\ eq_pc[t] = "get"
    /\ eq_frame' = [eq_frame EXCEPT ![t].con = connections[eq_frame[t].cache_key]]
    /\ eq_pc' = [eq_pc EXCEPT ![t] = "execute"]
    /\ UNCHANGED <<loop_vars, connections, engine>>

\* Line 86, con.execute(sql): the handle now holds the result set of sql.
ConExecute(t) ==
    /\ eq_pc[t] = "execute"
    /\ engine' = [engine EXCEPT ![eq_frame[t].con] = eq_frame[t].sql]
    /\ eq_pc' = [eq_pc EXCEPT ![t] = "fetch"]
    /\ UNCHANGED <<loop_vars, connections, eq_frame>>

\* Line 86 raises; lines 98-107 return the failure result.
ConExecuteRaises(t) ==
    /\ eq_pc[t] = "execute"
    /\ eq_frame' = [eq_frame EXCEPT ![t].result = ExecFailure(EngineError(eq_frame[t].sql))]
    /\ eq_pc' = [eq_pc EXCEPT ![t] = "returned"]
    /\ UNCHANGED <<loop_vars, connections, engine>>

\* Line 86, .fetchall(): the rows of the result set the handle holds.
Fetchall(t) ==
    /\ eq_pc[t] = "fetch"
    /\ eq_frame' = [eq_frame EXCEPT ![t].rows = fetchall(engine[eq_frame[t].con])]
    /\ eq_pc' = [eq_pc EXCEPT ![t] = "describe"]
    /\ UNCHANGED <<loop_vars, connections, engine>>

\* Lines 87-97: con.description of the result set the handle holds, and
\* the success result.
Description(t) ==
    /\ eq_pc[t] = "describe"
    /\ LET columns == description(engine[eq_frame[t].con])
       IN  eq_frame' = [eq_frame EXCEPT
                          ![t].columns = columns,
                          ![t].result = [success |-> TRUE, columns |-> columns,
                                         rows |-> eq_frame[t].rows,
                                         row_count |-> Len(eq_frame[t].rows),
                                         error |-> None]]
    /\ eq_pc' = [eq_pc EXCEPT ![t] = "returned"]
    /\ UNCHANGED <<loop_vars, connections, engine>>

ConnNext ==
    \/ \E t \in Threads, tool \in Tools : Call(t, tool)
    \/ \E t \in Threads : Lookup(t)
    \/ \E t \in Threads : Connect(t)
    \/ \E t \in Threads : ConnectRaises(t)
    \/ \E t \in Threads : Store(t)
    \/ \E t \in Threads : GetCached(t)
    \/ \E t \in Threads : ConExecute(t)
    \/ \E t \in Threads : ConExecuteRaises(t)
    \/ \E t \in Threads : Fetchall(t)
    \/ \E t \in Threads : Description(t)

\* Tool calls that run execute_query side by side.
SpecConn == ConnInit /\ [][ConnNext]_vars

\* ------------------------------------------------------------- C11

\* The handles duckdb.connect has made for a cache key.
HandlesOf(key) == {con \in DOMAIN engine : con.key = key}

\* The calls that have obtained a handle from get_connection.
HoldsHandle(t) == eq_pc[t] \in {"execute", "fetch", "describe", "returned"} /\ eq_frame[t].con # NoHandle

\* C11: when calls make the first access to the same cache key side by
\* side, exactly one handle is made for the key and every call gets that
\* same handle.
C11_OneHandlePerKey ==
    /\ \A t \in Threads : Cardinality(HandlesOf(eq_frame[t].cache_key)) <= 1
    /\ \A t, u \in Threads :
          (HoldsHandle(t) /\ HoldsHandle(u) /\ eq_frame[t].cache_key = eq_frame[u].cache_key)
             => eq_frame[t].con = eq_frame[u].con

\* ------------------------------------------------------------- C12

\* The call is between con.execute and the read of con.description.
InUse(t) == eq_pc[t] \in {"fetch", "describe"}

\* C12: the uses of one cached handle are serialized: while a call is
\* between its execute and its read of the description, no other call is
\* so on the same handle, and the columns and rows of every success result
\* are those of the call's own statement.
C12_HandleUseSerialized ==
    /\ \A t, u \in Threads :
          (t # u /\ InUse(t) /\ InUse(u)) => eq_frame[t].con # eq_frame[u].con
    /\ \A t \in Threads :
          (eq_pc[t] = "returned" /\ eq_frame[t].result.success)
             => /\ eq_frame[t].result.columns = description(eq_frame[t].sql)
                /\ eq_frame[t].result.rows = fetchall(eq_frame[t].sql)

\* ------------------------------------------------------------- C13

\* C13: execute_query never lets an exception out: every call that has
\* ended has returned an Execution Result.
C13_ExecuteQueryNeverPropagates ==
    \A t \in Threads : eq_pc[t] # "raised"

\* ------------------------------------------------------------- _get_data_source

\* What the examination of one function never assigns.
quiet_vars == <<tool_config, semantic_context, introspections, pc, frame, outcome,
                exception, query_log, connections, calls, eq_pc, eq_frame, engine,
                log_vars>>

\* The server is loaded and nothing runs.
Quiet ==
    /\ tool_config = LoadedConfig(0, 0)
    /\ semantic_context = [t \in Tools |-> NoContext]
    /\ introspections = [t \in Tools |-> 0]
    /\ pc = [r \in Requests |-> "idle"]
    /\ frame = [r \in Requests |-> IdleFrame]
    /\ outcome = [r \in Requests |-> None]
    /\ exception = [r \in Requests |-> None]
    /\ query_log = <<>>
    /\ connections = << >>
    /\ calls = [r \in Requests |-> <<>>]
    /\ eq_pc = [t \in Threads |-> "idle"]
    /\ eq_frame = [t \in Threads |-> IdleCall]
    /\ engine = << >>
    /\ LogIdle

\* The "database" sections _get_data_source is examined on: each key
\* absent (None), empty or set.
DatabaseSections ==
    [db_path : {None, "", "sales.duckdb"},
     parquet_path : {None, "data.parquet"},
     table_name : {None, "", "orders"},
     max_retries : {0}]

\* What SHOW TABLES can return on the database file.
TableLists ==
    { <<>>, <<"orders">>, <<"users">>, <<"orders", "users">>,
      <<"users", "orders", "items">> }

\* _get_data_source is about to be called on some section and some file.
SourceInit ==
    /\ Quiet
    /\ \E db_config \in DatabaseSections, tables \in TableLists :
          pure = [fn |-> "_get_data_source",
                  args |-> [database |-> db_config, tables |-> tables],
                  returned |-> FALSE, result |-> <<>>]

\* semantic_layer.py lines 16-59: the call returns or raises.
GetDataSource ==
    /\ pure.fn = "_get_data_source"
    /\ ~pure.returned
    /\ pure' = [pure EXCEPT !.returned = TRUE,
                            !.result = get_data_source(pure.args.database, pure.args.tables)]
    /\ UNCHANGED quiet_vars

SourceNext == GetDataSource

SpecSource == SourceInit /\ [][SourceNext]_vars

\* ------------------------------------------------------------- C16

\* The call was on a database file.
OnDatabaseFile == ConfigGet(pure.args.database.db_path, "") # ""

\* The section names no table.
NoTableConfigured == ConfigGet(pure.args.database.table_name, "") = ""

\* C16: on a database file with no table name configured the resolution
\* succeeds exactly when the file holds one table, which becomes the table
\* name; with no table it raises an error that names the file, with two or
\* more an error that lists every table found; with a table name
\* configured it runs no discovery and uses the configured name.
C16_TableDiscovery ==
    (pure.fn = "_get_data_source" /\ pure.returned /\ OnDatabaseFile) =>
       LET tables == pure.args.tables
           result == pure.result
       IN  IF NoTableConfigured
           THEN /\ result.discovered
                /\ ~result.raised <=> Len(tables) = 1
                /\ Len(tables) = 1 => result.table_name = tables[1]
                /\ Len(tables) = 0 =>
                      result.error = <<"No tables found in database: ",
                                       pure.args.database.db_path>>
                /\ Len(tables) >= 2 =>
                      /\ result.error[1] = "Multiple tables found, specify table_name in config: "
                      /\ \A i \in 1..Len(tables) : result.error[2][i] = tables[i]
                      /\ Len(result.error[2]) = Len(tables)
           ELSE /\ ~result.raised
                /\ ~result.discovered
                /\ result.table_name = pure.args.database.table_name

\* The call on a database file with two tables and no configured name has
\* raised.
C16_Witness ==
    /\ pure.fn = "_get_data_source" /\ pure.returned /\ OnDatabaseFile
    /\ NoTableConfigured
    /\ Len(pure.args.tables) = 2
    /\ pure.result.raised

\* ------------------------------------------------------------- generate_sql

\* The triple-backtick marker of lines 124 and 129.
Fence == <<Backtick, Backtick, Backtick>>

\* clean_lines that keeps a line only while in_code_block is set.
RECURSIVE clean_lines_inside(_, _)
clean_lines_inside(lines, in_code_block) ==
    IF lines = << >> THEN << >>
    ELSE IF startswith(strip(Head(lines)), Fence)
    THEN clean_lines_inside(Tail(lines), ~in_code_block)
    ELSE (IF in_code_block THEN <<Head(lines)>> ELSE << >>)
         \o clean_lines_inside(Tail(lines), in_code_block)

\* Lines 126-132: the loop over the lines; a line whose trimmed text starts
\* with the marker flips in_code_block and is left out, every other line
\* is appended.
RECURSIVE clean_lines(_, _)
clean_lines(lines, in_code_block) ==
    IF lines = << >> THEN << >>
    ELSE IF startswith(strip(Head(lines)), Fence)
    THEN clean_lines(Tail(lines), ~in_code_block)
    ELSE <<Head(lines)>> \o clean_lines(Tail(lines), in_code_block)

\* Lines 121-133: sql_text after trimming and fence removal.
strip_fences(text) ==
    LET sql_text == strip(text)
    IN  IF contains(sql_text, Fence)
        THEN strip(join_lines(clean_lines(split_lines(sql_text), FALSE)))
        ELSE sql_text

\* add_prefix without the startswith test: the prefix is always put in
\* front.
add_prefix_always(sql_text, response_prefix) ==
    response_prefix \o <<" ">> \o sql_text

\* Lines 137-140: the response prefix is put in front unless the text
\* starts with it.
add_prefix(sql_text, response_prefix) ==
    IF startswith(upper(sql_text), upper(response_prefix))
    THEN sql_text
    ELSE response_prefix \o <<" ">> \o sql_text

\* Line 143: the terminators, in the order of the list.
Terminators ==
    << <<"\n", "\n", "T", "h", "i", "s", " ", "q", "u", "e", "r", "y">>,
       <<"\n", "\n", "E", "x", "p", "l", "a", "n", "a", "t", "i", "o", "n">>,
       <<"\n", "\n", "N", "o", "t", "e", ":">>,
       <<"\n", "\n", "-", "-">> >>

\* cut_at with a `break` after the first terminator of the list that is
\* found.
RECURSIVE cut_at_break(_, _)
cut_at_break(sql, terminators) ==
    IF terminators = << >> THEN sql
    ELSE IF contains(sql, Head(terminators))
    THEN split_first(sql, Head(terminators))
    ELSE cut_at_break(sql, Tail(terminators))

\* Lines 143-145: for each terminator in turn, `if terminator in sql:
\* sql = sql.split(terminator)[0]`.
RECURSIVE cut_at(_, _)
cut_at(sql, terminators) ==
    IF terminators = << >> THEN sql
    ELSE cut_at(IF contains(sql, Head(terminators))
                THEN split_first(sql, Head(terminators))
                ELSE sql,
                Tail(terminators))

\* Lines 150-151: `while sql.endswith(";;"): sql = sql[:-1]`.
RECURSIVE trim_semicolons(_)
trim_semicolons(sql) ==
    IF endswith(sql, <<";", ";">>)
    THEN trim_semicolons(SubSeq(sql, 1, Len(sql) - 1))
    ELSE sql

\* Lines 120-151 of generate_sql: from the LLM's text to the sql returned,
\* with the value of each stage.
extract_sql(text, response_prefix) ==
    LET sql_text == strip_fences(text)
        prefixed == add_prefix(sql_text, response_prefix)
        cut == cut_at(prefixed, Terminators)
    IN  [sql_text |-> sql_text,
         prefixed |-> prefixed,
         cut |-> cut,
         sql |-> trim_semicolons(strip(cut))]

\* ------------------------------------------------------------- text inputs

\* The strings sanitize_sql is examined on: a statement with or without
\* the doubled keyword, in any case, with whitespace or a semicolon around.
SanitizeLeads == { << >>,
      <<" ">>,
      <<"\n">> }

SanitizeCores ==
    { <<"S", "E", "L", "E", "C", "T", " ", "W", "I", "T", "H", " ", "c", " ", "A", "S", " ", "(", "x", ")", " ", "S", "E", "L", "E", "C", "T", " ", "2">>,
      <<"s", "e", "l", "e", "c", "t", " ", "w", "i", "t", "h", " ", "c", " ", "a", "s", " ", "(", "x", ")", " ", "s", "e", "l", "e", "c", "t", " ", "2">>,
      <<"S", "e", "l", "e", "c", "t", " ", "W", "i", "t", "h", " ", "c">>,
      <<"S", "E", "L", "E", "C", "T", " ", "1">>,
      <<"W", "I", "T", "H", " ", "c", " ", "A", "S", " ", "(", "x", ")", " ", "S", "E", "L", "E", "C", "T", " ", "2">>,
      <<"S", "E", "L", "E", "C", "T", " ", " ", "W", "I", "T", "H", " ", "c">>,
      <<"S", "E", "L", "E", "C", "T", "W", "I", "T", "H", " ", "c">>,
      <<"S", "E", "L", "E", "C", "T", " ", "W", "I", "T", "H", "D", "R", "A", "W", "N", " ", "F", "R", "O", "M", " ", "t">>,
      << >>,
      <<"S", "E", "L", "E", "C", "T">> }

SanitizeTrails == { << >>,
      <<" ">>,
      <<";">> }

SanitizeInputs ==
    { lead \o core \o trail :
        lead \in SanitizeLeads, core \in SanitizeCores, trail \in SanitizeTrails }

\* The LLM responses generate_sql is examined on: a statement, with or
\* without an opening and a closing fence line, followed or not by
\* explanations.
ResponseOpens == { << >>,
      <<Backtick, Backtick, Backtick, "\n">>,
      <<Backtick, Backtick, Backtick, "s", "q", "l", "\n">>,
      <<" ", " ", Backtick, Backtick, Backtick, " ", "\n">> }

ResponseBodies ==
    { <<"S", "E", "L", "E", "C", "T", " ", "1">>,
      <<"s", "e", "l", "e", "c", "t", " ", "1">>,
      <<"1", " ", "F", "R", "O", "M", " ", "t">>,
      <<"S", "E", "L", "E", "C", "T", " ", "1", ";", ";", ";">>,
      <<"W", "I", "T", "H", " ", "c", " ", "A", "S", " ", "(", "x", ")", " ", "S", "E", "L", "E", "C", "T", " ", "2">>,
      <<"S", "E", "L", "E", "C", "T", "E", "D", " ", "F", "R", "O", "M", " ", "t">> }

ResponseCloses == { << >>,
      <<"\n", Backtick, Backtick, Backtick>>,
      <<"\n", " ", Backtick, Backtick, Backtick, " ", " ">> }

ResponseTails ==
    { << >>,
      <<"\n", "\n", "T", "h", "i", "s", " ", "q", "u", "e", "r", "y", " ", "x">>,
      <<"\n", "\n", "N", "o", "t", "e", ":", " ", "y", "\n", "\n", "-", "-", " ", "z">>,
      <<"\n", "\n", "-", "-", " ", "z", "\n", "\n", "E", "x", "p", "l", "a", "n", "a", "t", "i", "o", "n", " ", "e">>,
      <<"\n", "-", "-", " ", "c">>,
      <<"\n", "\n", "E", "x", "p", "l", "a", "n", "a", "t", "i", "o", "n", " ", "e", "\n", "\n", "T", "h", "i", "s", " ", "q", "u", "e", "r", "y", " ", "x">> }

\* Responses of another shape: text on the fence line, a fence inside the
\* statement, nothing but an explanation, nothing at all.
OtherResponses ==
    { <<Backtick, Backtick, Backtick, " ", "S", "E", "L", "E", "C", "T", " ", "1">>,
      <<"S", "E", "L", "E", "C", "T", " ", "1", "\n", Backtick, Backtick, Backtick, "\n", "F", "R", "O", "M", " ", "t">>,
      <<"\n", "\n", "N", "o", "t", "e", ":", " ", "x">>,
      << >>,
      <<Backtick, Backtick, Backtick>>,
      <<"S", "E", "L", "E", "C", "T", " ", "'", Backtick, Backtick, Backtick, "'", " ", "F", "R", "O", "M", " ", "t">> }

ResponseTexts ==
    { open \o stmt \o close \o tail :
        open \in ResponseOpens, stmt \in ResponseBodies,
        close \in ResponseCloses, tail \in ResponseTails }
    \cup OtherResponses

\* prompt_format.get("response_prefix", "SELECT"): the default and another.
ResponsePrefixes == { <<"S", "E", "L", "E", "C", "T">>,
      <<"W", "I", "T", "H">> }

\* ------------------------------------------------------------- generate_sql: the prompt

\* An optional argument of generate_sql: None, or a str.
NoneValue == [none |-> TRUE, text |-> << >>]

Str(text) == [none |-> FALSE, text |-> text]

\* Python's truth value of an optional str: None and "" are false.
Truthy(value) == ~value.none /\ value.text # << >>

\* The fixed lines of the retry section (llm_client.py lines 103-110).
FailedHeader ==
    <<"/", "*", " ", "P", "R", "E", "V", "I", "O", "U", "S", " ", "A", "T", "T", "E", "M", "P", "T", " ", "F", "A", "I", "L", "E", "D", " ", "-", " ", "F", "I", "X", " ", "T", "H", "E", " ", "E", "R", "R", "O", "R", " ", "*", "/">>

FailedSqlLabel == <<"F", "a", "i", "l", "e", "d", " ", "S", "Q", "L", ":">>

ErrorMessageLabel == <<"E", "r", "r", "o", "r", " ", "m", "e", "s", "s", "a", "g", "e", ":">>

FixInstruction ==
    <<"A", "n", "a", "l", "y", "z", "e", " ", "t", "h", "e", " ", "e", "r", "r", "o", "r", " ", "a", "n", "d", " ", "g", "e", "n", "e", "r", "a", "t", "e", " ", "c", "o", "r", "r", "e", "c", "t", "e", "d", " ", "S", "Q", "L", ".", " ", "D", "o", " ", "n", "o", "t", " ", "r", "e", "p", "e", "a", "t", " ", "t", "h", "e", " ", "s", "a", "m", "e", " ", "m", "i", "s", "t", "a", "k", "e", ".">>

\* Lines 100-112: the prompt of a retry.
retry_prompt(base_prompt, previous_sql, previous_error, response_prefix) ==
    base_prompt \o <<"\n", "\n">>
      \o FailedHeader \o <<"\n">>
      \o FailedSqlLabel \o <<"\n">>
      \o previous_sql \o <<"\n", "\n">>
      \o ErrorMessageLabel \o <<"\n">>
      \o previous_error \o <<"\n", "\n">>
      \o FixInstruction \o <<"\n", "\n">>
      \o response_prefix

\* Lines 113-116: the prompt of a first attempt.
first_prompt(base_prompt, response_prefix) ==
    base_prompt \o <<"\n", "\n">> \o response_prefix

\* Lines 100-116: "if previous_sql and previous_error:" chooses the prompt.
build_prompt(base_prompt, previous_sql, previous_error, response_prefix) ==
    IF Truthy(previous_sql) /\ Truthy(previous_error)
    THEN retry_prompt(base_prompt, previous_sql.text, previous_error.text,
                      response_prefix)
    ELSE first_prompt(base_prompt, response_prefix)

\* The base prompts (lines 86-97) the choice is examined on: they end with
\* the question.
BasePrompts ==
    { <<"Q", "u", "e", "s", "t", "i", "o", "n", ":", " ", "q">>,
      <<"-", "-", " ", "r", "u", "l", "e", "s", "\n", "\n", "Q", "u", "e", "s", "t", "i", "o", "n", ":", " ", "F", "a", "i", "l", "e", "d", " ", "S", "Q", "L", ":">> }

\* The previous SQL a caller can pass: none, or what a generation call
\* returned: a statement, a statement over two lines, the empty text.
PreviousSqls ==
    { NoneValue,
      Str(<< >>),
      Str(<<"S", "E", "L", "E", "C", "T", " ", "x">>),
      Str(<<"S", "E", "L", "E", "C", "T", " ", "x", "\n", "F", "R", "O", "M", " ", "t">>) }

\* The previous error a caller can pass: none, or str(e) of the engine's
\* exception: a message, a message over two lines, the empty text.
PreviousErrors ==
    { NoneValue,
      Str(<< >>),
      Str(<<"B", "i", "n", "d", "e", "r", " ", "E", "r", "r", "o", "r", ":", " ", "x">>),
      Str(<<"P", "a", "r", "s", "e", "r", " ", "E", "r", "r", "o", "r", ":", "\n", "L", "I", "N", "E", " ", "1">>) }

\* sanitize_sql, the text-to-sql part of generate_sql or its prompt part is
\* about to be called on some input.
TextInit ==
    /\ Quiet
    /\ \/ \E sql \in SanitizeInputs :
            pure = [fn |-> "sanitize_sql", args |-> [sql |-> sql],
                    returned |-> FALSE, result |-> << >>]
       \/ \E text \in ResponseTexts, response_prefix \in ResponsePrefixes :
            pure = [fn |-> "generate_sql",
                    args |-> [text |-> text, response_prefix |-> response_prefix],
                    returned |-> FALSE, result |-> << >>]
       \/ \E base_prompt \in BasePrompts, previous_sql \in PreviousSqls,
             previous_error \in PreviousErrors, response_prefix \in ResponsePrefixes :
            pure = [fn |-> "build_prompt",
                    args |-> [base_prompt |-> base_prompt,
                              previous_sql |-> previous_sql,
                              previous_error |-> previous_error,
                              response_prefix |-> response_prefix],
                    returned |-> FALSE, result |-> << >>]

\* query_executor.py lines 59-67: sanitize_sql returns.
SanitizeSql ==
    /\ pure.fn = "sanitize_sql"
    /\ ~pure.returned
    /\ pure' = [pure EXCEPT !.returned = TRUE, !.result = sanitize_sql(pure.args.sql)]
    /\ UNCHANGED quiet_vars

\* llm_client.py lines 118-157: call_llm has returned the text; generate_sql
\* extracts the sql and returns.
GenerateSql ==
    /\ pure.fn = "generate_sql"
    /\ ~pure.returned
    /\ pure' = [pure EXCEPT
                  !.returned = TRUE,
                  !.result = extract_sql(pure.args.text, pure.args.response_prefix)]
    /\ UNCHANGED quiet_vars

\* llm_client.py lines 100-118: generate_sql has built the prompt and hands
\* it to call_llm.
BuildPrompt ==
    /\ pure.fn = "build_prompt"
    /\ ~pure.returned
    /\ pure' = [pure EXCEPT
                  !.returned = TRUE,
                  !.result = build_prompt(pure.args.base_prompt, pure.args.previous_sql,
                                          pure.args.previous_error,
                                          pure.args.response_prefix)]
    /\ UNCHANGED quiet_vars

TextNext == SanitizeSql \/ GenerateSql \/ BuildPrompt

SpecText == TextInit /\ [][TextNext]_vars

\* ------------------------------------------------------------- C17

\* A sanitize_sql call has returned.
Sanitized == pure.fn = "sanitize_sql" /\ pure.returned

\* C17: an input that begins with SELECT WITH comes back without its
\* leading 7 characters and otherwise as it was; every other input comes
\* back unchanged.
C17_SanitizeLiteral ==
    Sanitized =>
       LET sql == pure.args.sql
       IN  IF startswith(sql, SELECT_WITH)
           THEN pure.result = SubSeq(sql, 8, Len(sql))
           ELSE pure.result = sql

\* C17 as the code has it: the input is trimmed first; when the trimmed
\* text begins with SELECT WITH in any case, the result is the trimmed
\* text without its first 7 characters, which spell SELECT and a blank,
\* every later character in place; otherwise the result is the trimmed
\* text.
C17_SanitizeTrimmed ==
    Sanitized =>
       LET trimmed == strip(pure.args.sql)
           result == pure.result
       IN  IF startswith(upper(trimmed), SELECT_WITH)
           THEN /\ Len(result) = Len(trimmed) - 7
                /\ \A k \in 1..Len(result) : result[k] = trimmed[k + 7]
                /\ upper(SubSeq(trimmed, 1, 7)) = SubSeq(SELECT_WITH, 1, 7)
                /\ upper(SubSeq(result, 1, 4)) = SubSeq(SELECT_WITH, 8, 11)
           ELSE result = trimmed

\* A lower-case `select with` statement behind a line break has lost the
\* line break and the leading keyword.
C17_Witness ==
    /\ Sanitized
    /\ pure.args.sql # << >>
    /\ Head(pure.args.sql) = "\n"
    /\ startswith(strip(pure.args.sql), <<"s", "e", "l", "e", "c", "t", " ", "w", "i", "t", "h">>)
    /\ startswith(pure.result, <<"w", "i", "t", "h">>)

\* ------------------------------------------------------------- C18

\* A generate_sql call has returned.
Extracted == pure.fn = "generate_sql" /\ pure.returned

\* The text without the lines that consist of the marker alone, and without
\* the lines that start with the marker, whitespace around them set aside.
WithoutSoleMarkers(text) ==
    join_lines(SelectSeq(split_lines(text), LAMBDA line : strip(line) # Fence))

WithoutMarkerLines(text) ==
    join_lines(SelectSeq(split_lines(text), LAMBDA line : ~startswith(strip(line), Fence)))

\* C18: the lines that consist solely of a triple-backtick marker are
\* dropped and every other line is kept, and the sql extracted from the
\* text equals the sql extracted from the text without those lines.
C18_OnlySoleMarkersDropped ==
    Extracted =>
       /\ pure.result.sql_text = strip(WithoutSoleMarkers(pure.args.text))
       /\ pure.result.sql =
             extract_sql(WithoutSoleMarkers(pure.args.text), pure.args.response_prefix).sql

\* C18 as the code has it: every line whose trimmed text starts with the
\* triple-backtick marker is dropped (the bare marker, a marker with a
\* language tag, a marker followed by text) and every other line is kept;
\* the sql extracted from the text equals the sql extracted from the text
\* without those lines, whatever whitespace stands around the markers.
C18_MarkerLinesDropped ==
    Extracted =>
       /\ pure.result.sql_text = strip(WithoutMarkerLines(pure.args.text))
       /\ pure.result =
             extract_sql(WithoutMarkerLines(pure.args.text), pure.args.response_prefix)

\* A response with a tagged opening fence, a closing fence with blanks
\* around it and an explanation behind it has been reduced to sql without
\* any marker.
C18_Witness ==
    /\ Extracted
    /\ \E k \in 1..Len(split_lines(pure.args.text)) :
          LET line == split_lines(pure.args.text)[k]
          IN  startswith(line, Fence) /\ line # Fence
    /\ \E k \in 1..Len(split_lines(pure.args.text)) :
          LET line == split_lines(pure.args.text)[k]
          IN  strip(line) = Fence /\ line # Fence
    /\ pure.args.text # WithoutMarkerLines(pure.args.text)
    /\ ~contains(pure.result.sql, Fence)
    /\ Len(pure.result.sql) > Len(pure.args.response_prefix)

\* ------------------------------------------------------------- C19

\* A trailing-explanation marker occurs in s; the index of the leftmost
\* occurrence of any of them.
HasMarker(s) == \E k \in 1..Len(Terminators) : contains(s, Terminators[k])

LeftmostMarker(s) ==
    CHOOSE p \in 1..Len(s) :
       /\ \E k \in 1..Len(Terminators) : OccursAt(s, Terminators[k], p)
       /\ \A q \in 1..(p - 1) : \A k \in 1..Len(Terminators) : ~OccursAt(s, Terminators[k], q)

\* The response holds a marker behind a statement: something other than
\* whitespace and fence lines stands before it.
MarkerAfterStatement(text) ==
    \E k \in 1..Len(Terminators), p \in 1..Len(text) :
       /\ OccursAt(text, Terminators[k], p)
       /\ strip_fences(SubSeq(text, 1, p - 1)) # << >>

Doubled(response_prefix) == response_prefix \o <<" ">> \o response_prefix

\* C20: the sql begins with the response prefix, put there once: when the
\* trimmed, fence-stripped text starts with the prefix in any case nothing
\* is put in front, otherwise the prefix and one blank are; the prefix
\* stands twice only where the text itself began with it twice.
C20_PrefixOnce ==
    Extracted =>
       LET response_prefix == pure.args.response_prefix
           sql_text == pure.result.sql_text
           prefixed == pure.result.prefixed
       IN  /\ startswith(upper(pure.result.sql), upper(response_prefix))
           /\ startswith(upper(sql_text), upper(response_prefix)) => prefixed = sql_text
           /\ ~startswith(upper(sql_text), upper(response_prefix)) =>
                 /\ Len(prefixed) = Len(response_prefix) + 1 + Len(sql_text)
                 /\ startswith(prefixed, response_prefix \o <<" ">>)
                 /\ SubSeq(prefixed, Len(response_prefix) + 2, Len(prefixed)) = sql_text
           /\ startswith(upper(prefixed), upper(Doubled(response_prefix)))
                 => startswith(upper(sql_text), upper(Doubled(response_prefix)))

\* A fenced lower-case `select` statement has come back as it was, with
\* nothing put in front of it.
C20_Witness ==
    /\ Extracted
    /\ contains(pure.args.text, Fence)
    /\ startswith(pure.result.sql_text, <<"s", "e", "l", "e", "c", "t">>)
    /\ pure.args.response_prefix = <<"S", "E", "L", "E", "C", "T">>
    /\ pure.result.sql = pure.result.sql_text

\* ------------------------------------------------------------- C21

\* One step of execute_with_retry for request r (lines 140-204).
RequestStep(r) ==
    \/ Generate(r)
    \/ GenerateRaises(r)
    \/ Execute(r)
    \/ ExecuteRaises(r)
    \/ LogAttempt(r)
    \/ LogAttemptRaises(r)
    \/ ReturnSuccess(r)
    \/ Retry(r)
    \/ ReturnExhausted(r)

\* The interpreter keeps running a handler that has a next statement: a
\* request that can take a step takes one; the module body of server.py
\* runs to its end.
\* (Each step of a request changes its pc, each build step the count of
\* introspections.)
Fairness ==
    /\ \A t \in Tools : WF_introspections(BuildSemanticContext(t))
    /\ \A r \in Requests : WF_pc(RequestStep(r))

\* The program of Spec, run by an interpreter that does not stall.
SpecLive == Init /\ [][Next]_vars /\ Fairness

\* Every generation call and every execution call of the request returned.
CallsReturn(r) ==
    \A i \in 1..Len(calls[r]) :
        (IsGenerate(calls[r][i]) \/ IsExecute(calls[r][i])) => Returned(calls[r][i])

\* Success at the first successful execution: the request returned a
\* success outcome, its last execution is its only successful one.
TerminalSuccess(r) ==
    /\ pc[r] = "returned"
    /\ outcome[r].success
    /\ Len(ExecReturned(r)) = Len(ExecFailed(r)) + 1
    /\ ExecReturned(r)[Len(ExecReturned(r))].result.success

\* Failure after max_retries + 1 failed executions and no other.
TerminalFailure(r) ==
    /\ pc[r] = "returned"
    /\ ~outcome[r].success
    /\ Len(ExecReturned(r)) = max_retries(r) + 1
    /\ Len(ExecFailed(r)) = max_retries(r) + 1

\* C21: a request whose generation and execution calls all return
\* terminates in Success at the first successful execution or in Failure
\* after max_retries + 1 failed executions: as long as it is in neither
\* terminal state it has a next step to take (which the interpreter then
\* takes), and it makes no more than max_retries + 1 rounds of calls.
C21_Terminates ==
    \A r \in Requests :
        (pc[r] # "idle" /\ CallsReturn(r)) =>
            /\ ENABLED RequestStep(r) \/ TerminalSuccess(r) \/ TerminalFailure(r)
            /\ Len(calls[r]) <= 3 * (max_retries(r) + 1)

\* What a log_attempt exception leaves standing: a request none of whose
\* calls raised has a next step or is in one of the two terminal states,
\* a request that returned is in one of them, and no request makes more
\* than max_retries + 1 executions.
C21_TerminatesWhenNoCallRaises ==
    \A r \in Requests :
        /\ (pc[r] \notin {"idle", "raised"}) =>
              (ENABLED RequestStep(r) \/ TerminalSuccess(r) \/ TerminalFailure(r))
        /\ pc[r] = "returned" => (TerminalSuccess(r) \/ TerminalFailure(r))
        /\ Len(ExecCalls(r)) <= max_retries(r) + 1
        /\ Len(calls[r]) <= 3 * (max_retries(r) + 1)

\* ------------------------------------------------------------- C22

\* C22: the first generation call of a request receives no previous SQL and
\* no previous error; every later one receives the SQL that the generation
\* call just before it returned and the error text that the execution just
\* before it reported, and that execution failed.
C22_PreviousPairOfLastAttempt ==
    \A r \in Requests :
        \A i \in 1..Len(GenCalls(r)) :
            IF i = 1
            THEN /\ GenCalls(r)[i].previous_sql = None
                 /\ GenCalls(r)[i].previous_error = None
            ELSE /\ ~ExecCalls(r)[i - 1].result.success
                 /\ GenCalls(r)[i].previous_sql = GenCalls(r)[i - 1].result.sql
                 /\ GenCalls(r)[i].previous_error = ExecCalls(r)[i - 1].result.error

\* A third generation call was made after two failed attempts with
\* different SQL and different errors: it received the second attempt's.
C22_Witness ==
    \E r \in Requests :
        /\ Len(GenCalls(r)) = 3
        /\ GenCalls(r)[1].result.sql # GenCalls(r)[2].result.sql
        /\ ExecCalls(r)[1].result.error # ExecCalls(r)[2].result.error
        /\ GenCalls(r)[3].previous_sql = GenCalls(r)[2].result.sql
        /\ GenCalls(r)[3].previous_error = ExecCalls(r)[2].result.error

\* ------------------------------------------------------------- C23

PromptBuilt == pure.fn = "build_prompt" /\ pure.returned

\* The argument was supplied: it is not None.
Supplied(value) == ~value.none

\* The section of a retry prompt between the base prompt and the final
\* response-prefix line: failed SQL verbatim, error message verbatim, the
\* instruction.
FixSection(previous_sql, previous_error) ==
    FailedHeader \o <<"\n">>
      \o FailedSqlLabel \o <<"\n">> \o previous_sql \o <<"\n", "\n">>
      \o ErrorMessageLabel \o <<"\n">> \o previous_error \o <<"\n", "\n">>
      \o FixInstruction

\* C23: the prompt is the fix-this-error prompt exactly when both a previous
\* SQL and a previous error are supplied, whatever text they hold (the
\* empty text included), and the first-attempt prompt exactly when at least
\* one of them is absent.
C23_FixPromptWhenBothSupplied ==
    PromptBuilt =>
       LET a == pure.args
           fix == a.base_prompt \o <<"\n", "\n">>
                    \o FixSection(a.previous_sql.text, a.previous_error.text)
                    \o <<"\n", "\n">> \o a.response_prefix
           first == a.base_prompt \o <<"\n", "\n">> \o a.response_prefix
       IN  /\ fix # first
           /\ (Supplied(a.previous_sql) /\ Supplied(a.previous_error))
                 <=> pure.result = fix
           /\ ~(Supplied(a.previous_sql) /\ Supplied(a.previous_error))
                 <=> pure.result = first

\* C23 as the code has it: the prompt is the fix-this-error prompt exactly
\* when both a previous SQL and a previous error are supplied and neither
\* is the empty text, and the first-attempt prompt otherwise.
C23_FixPromptWhenBothNonEmpty ==
    PromptBuilt =>
       LET a == pure.args
           fix == a.base_prompt \o <<"\n", "\n">>
                    \o FixSection(a.previous_sql.text, a.previous_error.text)
                    \o <<"\n", "\n">> \o a.response_prefix
           first == a.base_prompt \o <<"\n", "\n">> \o a.response_prefix
           both == /\ Supplied(a.previous_sql) /\ a.previous_sql.text # << >>
                   /\ Supplied(a.previous_error) /\ a.previous_error.text # << >>
       IN  /\ both <=> pure.result = fix
           /\ ~both <=> pure.result = first

\* A previous SQL came with an empty error text and the first-attempt
\* prompt was built.
C23_EmptyErrorGivesFirstPrompt ==
    /\ PromptBuilt
    /\ Supplied(pure.args.previous_sql) /\ pure.args.previous_sql.text # << >>
    /\ pure.args.previous_error = Str(<< >>)
    /\ ~contains(pure.result, FailedHeader)

\* ------------------------------------------------------------- C24

\* The call has stored the handle it made in the cache (lines 35, 52).
HasStored(t) ==
    /\ eq_pc[t] \in {"get", "execute", "fetch", "describe", "returned"}
    /\ eq_frame[t].new_con # NoHandle

\* C24: the cache holds one handle per key: the handle a call stored for a
\* key stays the cached handle of that key (it is not replaced or removed),
\* no other handle is made for a cached key, and every call is handed the
\* cached handle.
C24_CachedHandleKept ==
    /\ \A t \in Threads :
          HasStored(t) =>
             /\ eq_frame[t].cache_key \in DOMAIN connections
             /\ connections[eq_frame[t].cache_key] = eq_frame[t].new_con
    /\ \A key \in DOMAIN connections : HandlesOf(key) = {connections[key]}
    /\ \A t \in Threads :
          HoldsHandle(t) => eq_frame[t].con = connections[eq_frame[t].cache_key]

\* What the race of get_connection leaves standing, for execute_query calls
\* that run one after the other (execute_query taken as one step): a key
\* that is in the cache stays there with the handle it has.
C24_SequentialCallsKeepHandle ==
    [][\A key \in DOMAIN connections :
          /\ key \in DOMAIN connections'
          /\ connections'[key] = connections[key]]_vars

\* A second call found the key in the cache and was handed the handle that
\* the first call made.
C24_SecondCallReuses ==
    \E t, u \in Threads :
        /\ t # u
        /\ HasStored(t)
        /\ HoldsHandle(u) /\ eq_frame[u].new_con = NoHandle
        /\ eq_frame[u].con = eq_frame[t].new_con

\* ------------------------------------------------------------- log_attempt

\* What the steps of log_attempt never assign.
no_log_vars == <<tool_config, semantic_context, introspections, pc, frame, outcome,
                 exception, connections, calls, eq_pc, eq_frame, engine, pure>>

\* The server is loaded, no log_attempt call has been made and the log
\* store is new.
LogInit == Quiet /\ pure = NoCall

\* The record a thread's n-th call is to insert.
LogRecord(t, n) == [request_id |-> t, attempt_number |-> n]

\* log_attempt(log_path, ...) is called (lines 27-58).
LogCall(t) ==
    /\ la_pc[t] \in {"idle", "returned", "raised"}
    /\ la_frame[t].n < MaxLogCalls
    /\ la_frame' = [la_frame EXCEPT
                      ![t] = LogFrame(la_frame[t].n + 1, LogRecord(t, la_frame[t].n + 1))]
    /\ la_pc' = [la_pc EXCEPT ![t] = "connect"]
    /\ UNCHANGED <<no_log_vars, query_log, log_handles, log_table>>

\* Line 60: con = duckdb.connect(expanded_path).
LogConnect(t) ==
    /\ la_pc[t] = "connect"
    /\ LET con == log_connect(t, la_frame[t].n)
       IN  /\ log_handles' = log_handles @@ (con :> "open")
           /\ la_frame' = [la_frame EXCEPT ![t].con = con]
    /\ la_pc' = [la_pc EXCEPT ![t] = "init"]
    /\ UNCHANGED <<no_log_vars, query_log, log_table>>

\* Line 60 raises (the store cannot be opened): `con` is not assigned and
\* the try statement is not entered.
LogConnectRaises(t) ==
    /\ la_pc[t] = "connect"
    /\ la_frame' = [la_frame EXCEPT ![t].exception = "IOException"]
    /\ la_pc' = [la_pc EXCEPT ![t] = "raised"]
    /\ UNCHANGED <<no_log_vars, query_log, log_handles, log_table>>

\* Line 62, _init_log_table(con): CREATE TABLE IF NOT EXISTS query_log.
InitLogTable(t) ==
    /\ la_pc[t] = "init"
    /\ log_table' = TRUE
    /\ la_pc' = [la_pc EXCEPT ![t] = "insert"]
    /\ UNCHANGED <<no_log_vars, query_log, la_frame, log_handles>>

\* InitLogTableRaises without the `finally`: the exception leaves
\* log_attempt at once.
InitLogTableRaisesUnclosed(t) ==
    /\ la_pc[t] = "init"
    /\ la_frame' = [la_frame EXCEPT ![t].exception = "CatalogException"]
    /\ la_pc' = [la_pc EXCEPT ![t] = "raised"]
    /\ UNCHANGED <<no_log_vars, query_log, log_handles, log_table>>

\* Line 62 raises; control goes to the `finally` clause.
InitLogTableRaises(t) ==
    /\ la_pc[t] = "init"
    /\ la_frame' = [la_frame EXCEPT ![t].exception = "CatalogException"]
    /\ la_pc' = [la_pc EXCEPT ![t] = "finally"]
    /\ UNCHANGED <<no_log_vars, query_log, log_handles, log_table>>

\* Lines 63-82: the INSERT adds the record.
LogInsert(t) ==
    /\ la_pc[t] = "insert"
    /\ query_log' = InsertRecord(query_log, la_frame[t].record)
    /\ la_pc' = [la_pc EXCEPT ![t] = "finally"]
    /\ UNCHANGED <<no_log_vars, la_frame, log_handles, log_table>>

\* Lines 63-82 raise (a constraint or conversion error); no row is added
\* and control goes to the `finally` clause.
LogInsertRaises(t) ==
    /\ la_pc[t] = "insert"
    /\ la_frame' = [la_frame EXCEPT ![t].exception = "ConversionException"]
    /\ la_pc' = [la_pc EXCEPT ![t] = "finally"]
    /\ UNCHANGED <<no_log_vars, query_log, log_handles, log_table>>

\* Lines 83-84: con.close(); then log_attempt returns, or the exception
\* under way goes on.
LogClose(t) ==
    /\ la_pc[t] = "finally"
    /\ log_handles' = [log_handles EXCEPT ![la_frame[t].con] = "closed"]
    /\ la_pc' = [la_pc EXCEPT ![t] = IF la_frame[t].exception = None
                                     THEN "returned" ELSE "raised"]
    /\ UNCHANGED <<no_log_vars, query_log, la_frame, log_table>>

LogNext ==
    \/ \E t \in Threads : LogCall(t)
    \/ \E t \in Threads : LogConnect(t)
    \/ \E t \in Threads : LogConnectRaises(t)
    \/ \E t \in Threads : InitLogTable(t)
    \/ \E t \in Threads : InitLogTableRaises(t)
    \/ \E t \in Threads : LogInsert(t)
    \/ \E t \in Threads : LogInsertRaises(t)
    \/ \E t \in Threads : LogClose(t)

\* log_attempt calls, statement by statement, from requests that run side
\* by side.
SpecLog == LogInit /\ [][LogNext]_vars

\* ------------------------------------------------------------- C25

\* The handles that were made for the thread's current call.
HandlesOfCall(t) ==
    {con \in DOMAIN log_handles : con.by = t /\ con.n = la_frame[t].n}

\* The thread is inside the try statement of a log_attempt call.
InTry(t) == la_pc[t] \in {"init", "insert", "finally"}

\* C25: a log_attempt call opens one handle of its own, creates the table
\* before it inserts, and has closed the handle when it has returned or
\* raised, whichever statement failed; between calls no handle is open.
C25_HandleClosedOnEveryPath ==
    /\ \A t \in Threads :
          /\ InTry(t) =>
                /\ HandlesOfCall(t) = {la_frame[t].con}
                /\ log_handles[la_frame[t].con] = "open"
                /\ \A u \in Threads : u # t => la_frame[u].con # la_frame[t].con
          /\ la_pc[t] \in {"insert", "returned"} => log_table
          /\ la_pc[t] \in {"returned", "raised"} =>
                /\ Cardinality(HandlesOfCall(t)) <= 1
                /\ la_pc[t] = "returned" => Cardinality(HandlesOfCall(t)) = 1
                /\ \A con \in HandlesOfCall(t) : log_handles[con] = "closed"
          /\ la_pc[t] \in {"idle", "connect", "returned", "raised"} =>
                \A con \in DOMAIN log_handles : con.by = t => log_handles[con] = "closed"
    /\ query_log # <<>> => log_table
    /\ (\A t \in Threads : ~InTry(t)) =>
          \A con \in DOMAIN log_handles : log_handles[con] = "closed"

\* A thread's second call raised after its table creation failed, its first
\* call having returned: both of its handles are closed, while the other
\* thread's insert failed and its handle is closed too.
C25_Witness ==
    \E t, u \in Threads :
        /\ t # u
        /\ la_pc[t] = "raised" /\ la_frame[t].n = 2
        /\ la_frame[t].exception = "CatalogException"
        /\ {log_connect(t, 1), log_connect(t, 2), la_frame[u].con} \subseteq DOMAIN log_handles
        /\ log_handles[log_connect(t, 1)] = "closed"
        /\ log_handles[log_connect(t, 2)] = "closed"
        /\ Len(query_log) = 1
        /\ la_pc[u] = "raised" /\ la_frame[u].exception = "ConversionException"
        /\ log_handles[la_frame[u].con] = "closed"

\* ------------------------------------------------------------- C26

\* C26: the engine is handed the sanitized text of the generated SQL, and
\* nothing else of an attempt sees the rewrite: the Attempt Record, the
\* error trail entry, the previous SQL of the next generation call and the
\* final SQL of the Loop Outcome hold the SQL that the generation call
\* returned, character for character.
C26_SanitizedTextOnlyToEngine ==
    \A r \in Requests :
        /\ \A i \in 1..Len(ExecReturned(r)) :
              /\ ExecReturned(r)[i].executed = sanitized(GenReturned(r)[i].result.sql)
              /\ ExecReturned(r)[i].sql = GenReturned(r)[i].result.sql
        /\ \A i \in 1..Len(LogCalls(r)) :
              LogCalls(r)[i].record.sql = GenReturned(r)[i].result.sql
        /\ \A i \in 1..Len(RecordsOf(r)) :
              RecordsOf(r)[i].sql = GenReturned(r)[i].result.sql
        /\ \A i \in 2..Len(GenCalls(r)) :
              GenCalls(r)[i].previous_sql = GenReturned(r)[i - 1].result.sql
        /\ pc[r] = "returned" =>
              /\ outcome[r].sql = GenReturned(r)[Len(GenReturned(r))].result.sql
              /\ \A i \in 1..Len(outcome[r].errors) :
                    outcome[r].errors[i].sql = GenReturned(r)[i].result.sql

\* The statement was rewritten for the engine.
Rewritten(call) == call.executed # call.sql

\* A request ran out of its budget on statements that sanitize_sql rewrote
\* for the engine in the first and in the last attempt, and another one
\* succeeded with such a statement.
C26_Witness ==
    \E r, q \in Requests :
        /\ pc[r] = "returned" /\ ~outcome[r].success
        /\ Len(ExecReturned(r)) >= 2
        /\ Rewritten(ExecReturned(r)[1])
        /\ Rewritten(ExecReturned(r)[Len(ExecReturned(r))])
        /\ outcome[r].sql # ExecReturned(r)[Len(ExecReturned(r))].executed
        /\ outcome[r].errors[1].sql # ExecReturned(r)[1].executed
        /\ pc[q] = "returned" /\ outcome[q].success
        /\ Rewritten(ExecReturned(q)[Len(ExecReturned(q))])

====
